---- MODULE Spec2Model ----
(***************************************************************************)
(* Model of the task manager (src/task_manager/core.py, cli.py): the task  *)
(* registry kept on disk (tasks.json), the controllers (TaskManager        *)
(* objects, one per CLI process, each with its own in-memory copy of the   *)
(* registry), the tmux sessions that host the jobs, the logs directory     *)
(* and the completion notifier.                                            *)
(*                                                                         *)
(* Every handler is the composition, in source order, of the primitive     *)
(* steps the code performs.  A primitive maps a "world" record (the        *)
(* controller's fields together with the shared resources) to the next     *)
(* world and appends the effect it performed to the field `trace`.         *)
(***************************************************************************)
EXTENDS Integers, Sequences, FiniteSets, TLC

\* ------------------------------------------------------------------ bounds
MaxId     == 2      \* largest counter value the allocator may hand out
MaxTime   == 4      \* largest reading of the wall clock
MaxNotify == 2      \* largest number of notifier calls counted per task id

\* ------------------------------------------------------- program constants
IdWidth   == 5      \* f"{self.next_task_id:05d}"

Procs    == {"cli1"}               \* processes that keep their controller
Names    == {"build"}
Commands == {"make all"}
TmuxErr  == "duplicate session"    \* stderr of a failed tmux new-session

None     == <<>>
Some(x)  == <<x>>
EmptyDict == <<>>

Keys(d)      == DOMAIN d
Put(d, k, v) == [x \in (DOMAIN d) \cup {k} |-> IF x = k THEN v ELSE d[x]]
Del(d, k)    == [x \in (DOMAIN d) \ {k} |-> d[x]]
Get(d, k)    == IF k \in DOMAIN d THEN d[k] ELSE <<>>
Count(d, k)  == Len(Get(d, k))

\* ------------------------------------------------------------ identifiers
DigitChars == <<"0", "1", "2", "3", "4", "5", "6", "7", "8", "9">>
DigitChar(d) == DigitChars[d + 1]
DigitVal(c)  == CHOOSE d \in 0..9 : DigitChars[d + 1] = c

RECURSIVE Digits(_)
Digits(n) == IF n < 10 THEN <<DigitChar(n)>>
             ELSE Append(Digits(n \div 10), DigitChar(n % 10))

\* f"{n:05d}": decimal digits, left-padded with zeros to IdWidth
FormatId(n) ==
    LET d == Digits(n)
        k == IdWidth - Len(d)
    IN  IF k <= 0 THEN d
        ELSE [i \in 1..IdWidth |-> IF i <= k THEN "0" ELSE d[i - k]]

\* int(task_id)
RECURSIVE ParseId(_)
ParseId(s) == IF Len(s) = 0 THEN 0
              ELSE 10 * ParseId(SubSeq(s, 1, Len(s) - 1)) + DigitVal(s[Len(s)])

IsPrefix(a, b) == Len(a) <= Len(b) /\ SubSeq(b, 1, Len(a)) = a

SessionName(id) == <<"task_">> \o id        \* f"task_{task_id}"
LogName(id)     == id \o <<".log">>         \* f"{task_id}.log"
EmailLog        == <<"email.log">>

Terminal == {"completed", "failed", "killed"}

\* ------------------------------------------------------------------ state
VARIABLES
    disk,          \* content of tasks.json: id -> serialized task
    logs_dir,      \* files of the logs directory: name -> content
    sessions,      \* tmux sessions: name -> [state, pipe]
    clock,         \* datetime.now()
    pc,            \* per process: "none" | "ready" | "stop_sleep" | "monitor"
    tasks,         \* per process: TaskManager.tasks
    next_task_id,  \* per process: TaskManager.next_task_id
    stop_arg,      \* per process: the id a sleeping stop_task or a monitor loop works on
    notified,      \* id -> the handlers that called the notifier for that task
    issued,        \* the largest counter value an id was issued for so far
    writing,       \* a process inside _save_tasks, between open(..., 'w') and the
                   \* end of json.dump: what the file held and what the process holds
    trace,         \* effects of the latest handler call, in order
    ret            \* latest handler call: [proc, op, id, val]

vars == <<disk, logs_dir, sessions, clock, pc, tasks, next_task_id,
          stop_arg, notified, issued, writing, trace, ret>>

\* ---------------------------------------------------------------- Task
\* faulty variant: the session is named after the task's name
NewTaskSessionByName(id, name, command, now) ==
    [id |-> id, name |-> name, command |-> command,
     tmux_session |-> <<"task_", name>>, status |-> "pending",
     priority |-> 0, max_retries |-> 0, retry_count |-> 0,
     created_time |-> Some(now), start_time |-> None, end_time |-> None,
     pid |-> None, exit_code |-> None, error_message |-> None]

NewTask(id, name, command, now) ==
    [id |-> id, name |-> name, command |-> command,
     tmux_session |-> SessionName(id), status |-> "pending",
     priority |-> 0, max_retries |-> 0, retry_count |-> 0,
     created_time |-> Some(now), start_time |-> None, end_time |-> None,
     pid |-> None, exit_code |-> None, error_message |-> None]

\* ------------------------------------------------------- the world record
World(p) ==
    [proc |-> p, tasks |-> tasks[p], next_task_id |-> next_task_id[p],
     disk |-> disk, logs_dir |-> logs_dir, sessions |-> sessions,
     now |-> clock, timed |-> FALSE, notified |-> notified, trace |-> <<>>,
     who |-> "", rc |-> 0, stderr |-> "", stdout |-> <<>>, val |-> None,
     notifier_up |-> TRUE, raised |-> FALSE, exit |-> 0, failing |-> {},
     disk_up |-> TRUE]

\* the world of a process that has no controller yet
FreshWorld(p) ==
    [proc |-> p, tasks |-> EmptyDict, next_task_id |-> 0,
     disk |-> disk, logs_dir |-> logs_dir, sessions |-> sessions,
     now |-> clock, timed |-> FALSE, notified |-> notified, trace |-> <<>>,
     who |-> "", rc |-> 0, stderr |-> "", stdout |-> <<>>, val |-> None,
     notifier_up |-> TRUE, raised |-> FALSE, exit |-> 0, failing |-> {},
     disk_up |-> TRUE]

\* datetime.now(): the reading; the clock has moved on by the next call
Now(w)    == w.now
Timed(w)  == [w EXCEPT !.timed = TRUE]

In(w, handler) == [w EXCEPT !.who = handler]
Emit(w, e) == [w EXCEPT !.trace = Append(@, e)]
Return(w, v) == [w EXCEPT !.val = Some(v)]

\* sys.exit(code); a command that returns to main() leaves the process with 0
SysExit(w, code) == [w EXCEPT !.exit = code]

\* the steps of cmds fail during this call: a tmux subcommand returns
\* non-zero, open(log_file, 'w') raises
ToolFails(w, cmds) == [w EXCEPT !.failing = cmds]

\* subprocess.run gave a non-zero code for a command that could have worked
ToolFailed(w) == Emit([w EXCEPT !.rc = 1, !.stderr = TmuxErr], "tool-failed")

\* open(self.tasks_file, 'w') raises during this call
DiskDown(w) == [w EXCEPT !.disk_up = FALSE]

\* the notifier of this call raises
NotifierDown(w) == [w EXCEPT !.notifier_up = FALSE]

\* index of the first occurrence of e in tr, 0 when absent
Pos(tr, e) ==
    IF \E i \in 1..Len(tr) : tr[i] = e
    THEN CHOOSE i \in 1..Len(tr) : tr[i] = e /\ \A j \in 1..(i - 1) : tr[j] # e
    ELSE 0
Has(tr, e) == Pos(tr, e) > 0
Before(tr, a, b) == Has(tr, a) /\ Has(tr, b) /\ Pos(tr, a) < Pos(tr, b)

\* ------------------------------------------------------------ persistence
\* faulty variant: the timestamp is written to a coarser unit
IsoFormatTruncated(t) == [iso |-> (t \div 2) * 2]

IsoFormat(t)  == [iso |-> t]
FromIso(s)    == s.iso
TimeOut(t)    == IF t # None THEN Some(IsoFormat(t[1])) ELSE t
TimeIn(s)     == IF s # None THEN Some(FromIso(s[1])) ELSE s

Serialize(t) ==
    [t EXCEPT !.created_time = TimeOut(@), !.start_time = TimeOut(@),
              !.end_time = TimeOut(@)]
Deserialize(d) ==
    [d EXCEPT !.created_time = TimeIn(@), !.start_time = TimeIn(@),
              !.end_time = TimeIn(@)]

\* the keys Task(**task_data) accepts
TaskFields ==
    {"id", "name", "command", "tmux_session", "status", "priority", "max_retries",
     "retry_count", "created_time", "start_time", "end_time", "pid", "exit_code",
     "error_message"}

\* json.load, fromisoformat and Task(**task_data) go through for every entry
Loadable(file) == \A k \in DOMAIN file : DOMAIN file[k] = TaskFields

\* _load_tasks: a missing file and a file that raises both give {}
LoadTasks(file)  ==
    IF Loadable(file) THEN [k \in DOMAIN file |-> Deserialize(file[k])] ELSE EmptyDict

DumpTasks(reg)   == [k \in DOMAIN reg |-> Serialize(reg[k])]

\* faulty variant: the entries of the file that the registry does not hold are kept
SaveTasksMerging(w) ==
    Emit([w EXCEPT !.disk = [k \in DOMAIN w.disk \cup DOMAIN w.tasks |->
                                 IF k \in DOMAIN w.tasks THEN Serialize(w.tasks[k])
                                 ELSE w.disk[k]]], "save")

\* _save_tasks; "save-error": the file could not be opened, the except branch
\* printed the failure and the call went on
SaveTasks(w) ==
    IF w.disk_up THEN Emit([w EXCEPT !.disk = DumpTasks(w.tasks)], "save")
    ELSE Emit(w, "save-error")

RECURSIVE MaxOf(_)
MaxOf(S) == IF S = {} THEN 0
            ELSE LET x == CHOOSE y \in S : TRUE
                     m == MaxOf(S \ {x})
                 IN  IF x > m THEN x ELSE m

\* int(task_id) goes through
Numeric(k) == Len(k) > 0 /\ \A i \in 1..Len(k) : \E d \in 0..9 : k[i] = DigitChar(d)

GetNextTaskId(reg) ==
    IF Keys(reg) = {} THEN 1
    ELSE MaxOf({ParseId(k) : k \in Keys(reg)}) + 1

\* ------------------------------------------------------------------ create
HasLogs(dir, candidate) == \E f \in DOMAIN dir : IsPrefix(candidate, f)

\* faulty variant: the allocator scans from one, whatever the counter
AllocateFromOne(reg, dir, n) ==
    CHOOSE m \in 1..(n + Cardinality(Keys(reg)) + Cardinality(DOMAIN dir)) :
        /\ FormatId(m) \notin Keys(reg) /\ ~HasLogs(dir, FormatId(m))
        /\ \A k \in 1..(m - 1) : FormatId(k) \in Keys(reg) \/ HasLogs(dir, FormatId(k))

\* faulty variant: the allocator looks at the registry only
RECURSIVE AllocateIgnoringLogs(_, _, _)
AllocateIgnoringLogs(reg, dir, n) ==
    IF FormatId(n) \in Keys(reg)
    THEN AllocateIgnoringLogs(reg, dir, n + 1)
    ELSE n

RECURSIVE Allocate(_, _, _)
Allocate(reg, dir, n) ==
    IF FormatId(n) \in Keys(reg) \/ HasLogs(dir, FormatId(n))
    THEN Allocate(reg, dir, n + 1)
    ELSE n

\* faulty variant: the log file of the task is opened when the task is created
CreateTaskOpensLog(w, name, command) ==
    LET n   == Allocate(w.tasks, w.logs_dir, w.next_task_id)
        id  == FormatId(n)
        w1  == [Timed(w) EXCEPT !.tasks = Put(@, id, NewTask(id, name, command, Now(w))),
                                !.next_task_id = n + 1 + 1,
                                !.logs_dir = Put(@, LogName(id), "")]
        w2  == SaveTasks(Emit(w1, "write-log"))
    IN  [w2 EXCEPT !.val = Some(id)]

CreateTask(w, name, command) ==
    LET n   == Allocate(w.tasks, w.logs_dir, w.next_task_id)
        id  == FormatId(n)
        w1  == [Timed(w) EXCEPT !.tasks = Put(@, id, NewTask(id, name, command, Now(w))),
                                !.next_task_id = n + 1 + 1]
        w2  == SaveTasks(w1)
    IN  [w2 EXCEPT !.val = Some(id)]

\* ------------------------------------------------------------------- tmux
\* tmux new-session -d -s <name>; ok = FALSE: the tool itself fails
TmuxNewSession(w, name, ok) ==
    IF ok /\ name \notin DOMAIN w.sessions
    THEN Emit([w EXCEPT !.sessions = Put(@, name, [state |-> "shell", pipe |-> None,
                                                   cmd |-> None]),
                        !.rc = 0, !.stderr = ""], "new-session")
    ELSE Emit([w EXCEPT !.rc = 1, !.stderr = TmuxErr], "new-session")

\* tmux pipe-pane -t <name>:0 -o 'cat >> <file>'  (-o: open only when no pipe is open)
TmuxPipePane(w, name, file) ==
    IF "pipe-pane" \in w.failing THEN ToolFailed(Emit(w, "pipe-pane"))
    ELSE IF name \in DOMAIN w.sessions
    THEN Emit([w EXCEPT !.sessions[name].pipe = IF @ = None THEN Some(file) ELSE None,
                        !.rc = 0], "pipe-pane")
    ELSE Emit([w EXCEPT !.rc = 1], "pipe-pane")

\* tmux send-keys -t <name>:0 "<wrapped>" C-m : the shell of the pane runs the command
TmuxSendKeys(w, name, full_cmd) ==
    IF "send-keys" \in w.failing THEN ToolFailed(Emit(w, "send-keys"))
    ELSE IF name \in DOMAIN w.sessions
    THEN Emit([w EXCEPT !.sessions[name] =
                     IF @.state = "shell"
                     THEN [@ EXCEPT !.state = "job", !.cmd = Some(full_cmd)]
                     ELSE @,
                        !.rc = 0], "send-keys")
    ELSE Emit([w EXCEPT !.rc = 1], "send-keys")

\* what the pane may be doing after SIGINT reached its foreground processes
AfterInterrupt(state) ==
    CASE state = "job"     -> {"job", "exited", "shell"}
      [] state = "exited"  -> {"exited", "emailed", "shell"}
      [] state = "emailed" -> {"emailed", "shell"}
      [] OTHER             -> {state}

\* tmux send-keys -t <name> C-c ; after: the state the pane is left in
TmuxSendCtrlC(w, name, after) ==
    IF name \in DOMAIN w.sessions
    THEN Emit([w EXCEPT !.sessions[name].state =
                     IF after \in AfterInterrupt(@) THEN after ELSE @,
                        !.rc = 0], "send-ctrl-c")
    ELSE Emit([w EXCEPT !.rc = 1], "send-ctrl-c")

\* tmux has-session -t <name>
TmuxHasSession(w, name) ==
    Emit([w EXCEPT !.rc = IF name \in DOMAIN w.sessions THEN 0 ELSE 1], "has-session")

\* tmux kill-session -t <name>
TmuxKillSession(w, name) ==
    IF "kill-session" \in w.failing THEN ToolFailed(Emit(w, "kill-session"))
    ELSE IF name \in DOMAIN w.sessions
    THEN Emit([w EXCEPT !.sessions = Del(@, name), !.rc = 0], "kill-session")
    ELSE Emit([w EXCEPT !.rc = 1], "kill-session")

\* ------------------------------------------------------------------ notify
\* faulty variant: a notification that fails puts the task back to running,
\* for a later reconcile to notify again
SendCompletionEmailRequeue(w, id) ==
    IF w.tasks[id].status \in Terminal
    THEN LET w1 == Emit([w EXCEPT !.notified = Put(@, id, Append(Get(@, id), w.who))],
                        "notify")
         IN  IF w.notifier_up THEN w1
             ELSE Emit([w1 EXCEPT !.tasks[id].status = "running",
                                  !.tasks[id].end_time = None], "notify-error")
    ELSE w

\* TaskManager._send_completion_email; "notify-error": the notifier raised, the
\* except branch printed the failure
SendCompletionEmail(w, id) ==
    IF w.tasks[id].status \in Terminal
    THEN LET w1 == Emit([w EXCEPT !.notified = Put(@, id, Append(Get(@, id), w.who))],
                        "notify")
         IN  IF w.notifier_up THEN w1 ELSE Emit(w1, "notify-error")
    ELSE w

\* ------------------------------------------------------------------- start
\* faulty variant: the teardown directive names the task id, not its session
FullCmdKillById(task) ==
    [inner |-> task.command, email |-> task.id, kill |-> task.id]

\* full_cmd = "({inner}); {email_cmd}; {kill_tmux_cmd}"
FullCmd(task) ==
    [inner |-> task.command, email |-> task.id, kill |-> task.tmux_session]

LogHeader(task, now) ==
    [started |-> IsoFormat(now), name |-> task.name, command |-> task.command,
     session |-> task.tmux_session]

WriteLogHeader(w, id) ==
    Emit([Timed(w) EXCEPT !.logs_dir = Put(@, LogName(id), LogHeader(w.tasks[id], Now(w)))],
         "write-log")

PanePid(name) == 4242

\* tmux list-panes -t <name> -F '#{pane_pid}'
RecordPid(w, id) ==
    LET name == w.tasks[id].tmux_session
    IN  IF name \in DOMAIN w.sessions
        THEN [w EXCEPT !.tasks[id].pid = Some(PanePid(name))]
        ELSE w

\* faulty variant: the failure is recorded without the tool's message
StartFailedNoMessage(w, id) ==
    LET w1 == Emit([w EXCEPT !.tasks[id].status = "failed"], "set-failed")
    IN  Return(SaveTasks(w1), FALSE)

\* faulty variant: the failure is stamped with an end time
StartFailedWithEndTime(w, id) ==
    LET w1 == Emit([Timed(w) EXCEPT !.tasks[id].status = "failed",
                                    !.tasks[id].error_message = Some(w.stderr),
                                    !.tasks[id].end_time = Some(Now(w))],
                   "set-failed")
    IN  Return(SaveTasks(w1), FALSE)

\* start_task, the session did not open: lines 202-206
StartFailed(w, id) ==
    LET w1 == Emit([w EXCEPT !.tasks[id].status = "failed",
                             !.tasks[id].error_message = Some(w.stderr)],
                   "set-failed")
    IN  Return(SaveTasks(w1), FALSE)

\* faulty variant: the task is marked running and saved before the job is submitted
StartOpenedRunningFirst(w, id) ==
    LET task == w.tasks[id]
        w1 == WriteLogHeader(w, id)
        w2 == Emit([Timed(w1) EXCEPT !.tasks[id].status = "running",
                                     !.tasks[id].start_time = Some(Now(w1))],
                   "set-running")
        w3 == SaveTasks(RecordPid(w2, id))
        w4 == TmuxPipePane(w3, task.tmux_session, LogName(id))
        w5 == TmuxSendKeys(w4, task.tmux_session, FullCmd(task))
    IN  Return(w5, TRUE)

\* start_task, the except branch of lines 259-263
StartRaised(w, id, e) ==
    LET w1 == Emit([w EXCEPT !.tasks[id].status = "failed",
                             !.tasks[id].error_message = Some(e)],
                   "set-failed")
    IN  Return(SaveTasks(w1), FALSE)

\* start_task, the session is open: lines 208-257
StartOpened(w, id) ==
    LET task == w.tasks[id]
        w1 == WriteLogHeader(w, id)
        w2 == TmuxPipePane(w1, task.tmux_session, LogName(id))
        w3 == TmuxSendKeys(w2, task.tmux_session, FullCmd(task))
        w4 == Emit([Timed(w3) EXCEPT !.tasks[id].status = "running",
                                     !.tasks[id].start_time = Some(Now(w3))],
                   "set-running")
        w5 == RecordPid(w4, id)
    IN  IF "write-log" \in w.failing
        THEN StartRaised(Emit(w, "write-log-error"), id, "OSError")
        ELSE Return(SaveTasks(w5), TRUE)

\* faulty variant: start_task accepts a task of any status
StartTaskAnyStatus(w, id, tmux_ok) ==
    IF id \notin Keys(w.tasks) THEN Return(w, FALSE)
    ELSE LET w1 == TmuxNewSession(w, w.tasks[id].tmux_session, tmux_ok)
         IN  IF w1.rc # 0 THEN StartFailed(w1, id) ELSE StartOpened(w1, id)

\* faulty variant: the session of an id the registry does not hold is probed
StartTaskProbesUnknown(w, id, tmux_ok) ==
    IF id \notin Keys(w.tasks) THEN Return(TmuxHasSession(w, SessionName(id)), FALSE)
    ELSE IF w.tasks[id].status # "pending" THEN Return(w, FALSE)
    ELSE LET w1 == TmuxNewSession(w, w.tasks[id].tmux_session, tmux_ok)
         IN  IF w1.rc # 0 THEN StartFailed(w1, id) ELSE StartOpened(w1, id)

StartTask(w, id, tmux_ok) ==
    IF id \notin Keys(w.tasks) THEN Return(w, FALSE)
    ELSE IF w.tasks[id].status # "pending" THEN Return(w, FALSE)
    ELSE LET w1 == TmuxNewSession(w, w.tasks[id].tmux_session, tmux_ok)
         IN  IF w1.rc # 0 THEN StartFailed(w1, id) ELSE StartOpened(w1, id)

\* --------------------------------------------------------------- reconcile
\* faulty variant: the task is completed when the session is still there
CheckRunningInverted(w, id) ==
    LET h == TmuxHasSession(w, w.tasks[id].tmux_session)
    IN  IF h.rc = 0
        THEN LET w2 == Emit([Timed(h) EXCEPT !.tasks[id].status = "completed",
                                             !.tasks[id].end_time = Some(Now(h))],
                            "set-completed")
             IN  SendCompletionEmail(In(SaveTasks(w2), "reconcile"), id)
        ELSE h

\* get_task_status on a running task: lines 274-283
CheckRunning(w, id) ==
    LET h == TmuxHasSession(w, w.tasks[id].tmux_session)
    IN  IF h.rc # 0
        THEN LET w2 == Emit([Timed(h) EXCEPT !.tasks[id].status = "completed",
                                             !.tasks[id].end_time = Some(Now(h))],
                            "set-completed")
             IN  SendCompletionEmail(In(SaveTasks(w2), "reconcile"), id)
        ELSE h

\* faulty variant: the session is probed whatever the status
GetTaskStatusAnyStatus(w, id) ==
    IF id \notin Keys(w.tasks) THEN w
    ELSE LET w1 == CheckRunning(w, id)
         IN  Return(w1, w1.tasks[id])

\* faulty variant: the session of a pending task is probed too
GetTaskStatusProbesPending(w, id) ==
    IF id \notin Keys(w.tasks) THEN w
    ELSE LET w1 == IF w.tasks[id].status \in {"running", "pending"}
                   THEN CheckRunning(w, id) ELSE w
         IN  Return(w1, w1.tasks[id])

GetTaskStatus(w, id) ==
    IF id \notin Keys(w.tasks) THEN w
    ELSE LET w1 == IF w.tasks[id].status = "running" THEN CheckRunning(w, id) ELSE w
         IN  Return(w1, w1.tasks[id])

\* -------------------------------------------------------------------- stop
StopGuard(w, id) ==
    id \in Keys(w.tasks) /\ w.tasks[id].status \in {"running", "pending"}

\* faulty variant: the two final statuses are swapped
StopFinishSwapped(w, id, force) ==
    LET w1 == Emit([Timed(w) EXCEPT !.tasks[id].status = IF force THEN "completed" ELSE "killed",
                                    !.tasks[id].end_time = Some(Now(w))],
                   IF force THEN "set-completed" ELSE "set-killed")
    IN  Return(SendCompletionEmail(In(SaveTasks(w1), "stop"), id), TRUE)

\* faulty variant: the notifier is called before the registry is saved
StopFinishNotifyFirst(w, id, force) ==
    LET w1 == Emit([Timed(w) EXCEPT !.tasks[id].status = IF force THEN "killed" ELSE "completed",
                                    !.tasks[id].end_time = Some(Now(w))],
                   IF force THEN "set-killed" ELSE "set-completed")
    IN  Return(SaveTasks(SendCompletionEmail(In(w1, "stop"), id)), TRUE)

\* the tail of stop_task: the status change, the save and the notification
StopFinish(w, id, force) ==
    LET w1 == Emit([Timed(w) EXCEPT !.tasks[id].status = IF force THEN "killed" ELSE "completed",
                                    !.tasks[id].end_time = Some(Now(w))],
                   IF force THEN "set-killed" ELSE "set-completed")
    IN  Return(SendCompletionEmail(In(SaveTasks(w1), "stop"), id), TRUE)

\* stop_task(id, force=True)
StopTaskForce(w, id) ==
    IF ~StopGuard(w, id) THEN Return(w, FALSE)
    ELSE StopFinish(TmuxKillSession(w, w.tasks[id].tmux_session), id, TRUE)

\* stop_task(id, force=False) up to time.sleep(1)
StopTaskInterrupt(w, id, after) ==
    Emit(TmuxSendCtrlC(w, w.tasks[id].tmux_session, after), "sleep")

\* faulty variant: the teardown is issued without looking at the probe
StopTaskResumeAlwaysKill(w, id) ==
    LET name == w.tasks[id].tmux_session
        h    == TmuxHasSession(w, name)
    IN  StopFinish(TmuxKillSession(h, name), id, FALSE)

\* stop_task(id, force=False) from the wake-up on
StopTaskResume(w, id) ==
    LET name == w.tasks[id].tmux_session
        h    == TmuxHasSession(w, name)
        w1   == IF h.rc = 0 THEN TmuxKillSession(h, name) ELSE h
    IN  StopFinish(w1, id, FALSE)

\* ------------------------------------------------------------------ output
\* a text is the sequence of its characters; "\n" ends a line

\* text.split('\n')
RECURSIVE Split(_)
Split(text) ==
    IF \A i \in 1..Len(text) : text[i] # "\n" THEN <<text>>
    ELSE LET i == CHOOSE j \in 1..Len(text) :
                      text[j] = "\n" /\ \A k \in 1..(j - 1) : text[k] # "\n"
         IN  <<SubSeq(text, 1, i - 1)>> \o Split(SubSeq(text, i + 1, Len(text)))

\* '\n'.join(parts)
RECURSIVE Join(_)
Join(parts) ==
    IF Len(parts) = 0 THEN <<>>
    ELSE IF Len(parts) = 1 THEN parts[1]
    ELSE parts[1] \o <<"\n">> \o Join(Tail(parts))

\* parts[-n:] for n > 0
LastOf(parts, n) ==
    IF n >= Len(parts) THEN parts ELSE SubSeq(parts, Len(parts) - n + 1, Len(parts))

\* if lines > 0: '\n'.join(text.split('\n')[-lines:])
TailOf(text, lines) ==
    IF lines > 0 THEN Join(LastOf(Split(text), lines)) ELSE text

\* tmux capture-pane -t <name> -p
TmuxCapturePane(w, name) ==
    IF name \in DOMAIN w.sessions
    THEN Emit([w EXCEPT !.rc = 0, !.stdout = w.sessions[name].pane], "capture-pane")
    ELSE Emit([w EXCEPT !.rc = 1, !.stdout = <<>>], "capture-pane")

NotFound(id) == <<"Task ">> \o id \o <<" not found">>
NoOutput(id) == <<"No output available for task ">> \o id

\* get_tmux_output
GetTmuxOutput(w, id, lines) ==
    IF id \notin Keys(w.tasks) THEN Return(w, NotFound(id))
    ELSE LET c == TmuxCapturePane(w, w.tasks[id].tmux_session)
         IN  IF c.rc = 0 THEN Return(c, TailOf(c.stdout, lines))
             ELSE IF LogName(id) \in DOMAIN c.logs_dir
                  THEN Return(Emit(c, "read-log"), TailOf(c.logs_dir[LogName(id)], lines))
                  ELSE Return(c, NoOutput(id))

\* ----------------------------------------------------------------- cleanup
\* for path in self.logs_dir.glob(f"{task_id}*"): path.unlink()
\* one "unlink" per file the glob yields
UnlinkLogs(w, id) ==
    LET matched == {g \in DOMAIN w.logs_dir : IsPrefix(id, g)}
    IN  [w EXCEPT !.logs_dir = [f \in DOMAIN @ \ matched |-> @[f]],
                  !.trace = @ \o [i \in 1..Cardinality(matched) |-> "unlink"]]

\* faulty variant: the log files of the task are left behind
CleanupTaskKeepLogs(w, id) ==
    IF id \notin Keys(w.tasks) THEN Return(w, FALSE)
    ELSE LET w1 == TmuxKillSession(w, w.tasks[id].tmux_session)
             w3 == Emit([w1 EXCEPT !.tasks = Del(@, id)], "delete-task")
         IN  Return(SaveTasks(w3), TRUE)

\* faulty variant: the session and the logs are removed before the id is looked up
CleanupTaskAbsentSweeps(w, id) ==
    LET w1 == TmuxKillSession(w, SessionName(id))
        w2 == UnlinkLogs(w1, id)
    IN  IF id \notin Keys(w.tasks) THEN Return(w2, FALSE)
        ELSE Return(SaveTasks(Emit([w2 EXCEPT !.tasks = Del(@, id)], "delete-task")), TRUE)

CleanupTask(w, id) ==
    IF id \notin Keys(w.tasks) THEN Return(w, FALSE)
    ELSE LET w1 == TmuxKillSession(w, w.tasks[id].tmux_session)
             w2 == UnlinkLogs(w1, id)
             w3 == Emit([w2 EXCEPT !.tasks = Del(@, id)], "delete-task")
         IN  Return(SaveTasks(w3), TRUE)

\* cleanup_old_tasks: (current_time - task.end_time).total_seconds() / 3600,
\* the clock being read in hours
AgeHours(now, end_time) == now - end_time

\* faulty variant: a task exactly max_age_hours old is swept too
ExpiredInclusive(task, now, max_age_hours) ==
    /\ task.status \in {"completed", "failed", "killed"}
    /\ task.end_time # None
    /\ AgeHours(now, task.end_time[1]) >= max_age_hours

\* cleanup_old_tasks: the test that puts a task on tasks_to_remove
Expired(task, now, max_age_hours) ==
    /\ task.status \in {"completed", "failed", "killed"}
    /\ task.end_time # None
    /\ AgeHours(now, task.end_time[1]) > max_age_hours

\* for task_id in tasks_to_remove: self.cleanup_task(task_id)
RECURSIVE CleanupEach(_, _)
CleanupEach(w, ids) ==
    IF ids = {} THEN w
    ELSE LET id == CHOOSE i \in ids : \A j \in ids : ParseId(i) <= ParseId(j)
         IN  CleanupEach(CleanupTask(w, id), ids \ {id})

CleanupOldTasks(w, max_age_hours) ==
    LET t == Timed(w)
        tasks_to_remove == {id \in Keys(t.tasks) : Expired(t.tasks[id], Now(t), max_age_hours)}
    IN  [CleanupEach(t, tasks_to_remove) EXCEPT !.val = None]

\* -------------------------------------------------------------- _send_email
\* cli.cmd_send_email, run on a freshly constructed controller
CmdSendEmail(w, id) ==
    IF id \notin Keys(w.tasks) THEN w
    ELSE LET w1 == Emit([Timed(w) EXCEPT !.tasks[id].status = "completed",
                                         !.tasks[id].end_time = Some(Now(w))],
                        "set-completed")
         IN  SendCompletionEmail(In(SaveTasks(w1), "send_email"), id)

\* ------------------------------------------------------------------ frame
AllIds == {FormatId(n) : n \in 1..MaxId}

Bounded(w) ==
    /\ \A k \in Keys(w.tasks) : ParseId(k) <= MaxId
    /\ \A k \in DOMAIN w.notified : Len(w.notified[k]) <= MaxNotify
    /\ w.timed => w.now < MaxTime

\* the calls that make a new task
Creating == {"create", "cli_run", "cli_run_open"}

\* what a call leaves behind, the content of tasks.json apart
Committed(w, op, id) ==
    /\ Bounded(w)
    /\ tasks' = IF w.proc \in Procs THEN [tasks EXCEPT ![w.proc] = w.tasks] ELSE tasks
    /\ next_task_id' = IF w.proc \in Procs
                       THEN [next_task_id EXCEPT ![w.proc] = w.next_task_id]
                       ELSE next_task_id
    /\ logs_dir' = w.logs_dir
    /\ sessions' = w.sessions
    /\ notified' = IF op \in Creating THEN Del(w.notified, id[1]) ELSE w.notified
    /\ issued' = IF op \in Creating /\ ParseId(id[1]) > issued THEN ParseId(id[1]) ELSE issued
    /\ trace' = w.trace
    /\ ret' = [proc |-> w.proc, op |-> op, id |-> id, val |-> w.val, exit |-> w.exit]
    /\ clock' = IF w.timed THEN clock + 1 ELSE clock

\* a call whose saves have run to their end
Commit(w, op, id) ==
    /\ Committed(w, op, id)
    /\ disk' = w.disk
    /\ writing' = writing

\* TaskManager.__init__ : the registry is loaded, the counter recomputed and
\* the notifier opens logs/email.log
\* "load-warning": the except branch of _load_tasks printed the failure;
\* raised: int(task_id) raised ValueError in _get_next_task_id, out of __init__
NewController(w) ==
    LET reg == LoadTasks(w.disk)
        w1  == [w EXCEPT !.logs_dir = Put(@, EmailLog, "log")]
        w2  == IF Loadable(w.disk) THEN w1 ELSE Emit(w1, "load-warning")
    IN  IF \E k \in Keys(reg) : ~Numeric(k)
        THEN [Return(w2, "ValueError") EXCEPT !.raised = TRUE]
        ELSE [w2 EXCEPT !.tasks = reg, !.next_task_id = GetNextTaskId(reg)]

\* no handler call is waiting to be looked at
Idle == [proc |-> "none", op |-> "idle", id |-> None, val |-> None, exit |-> 0]
Quiet == ret.op = "idle"
CanCall(p) == Quiet /\ pc[p] = "ready"

\* ---------------------------------------------------------------- actions
Init ==
    /\ disk = EmptyDict
    /\ logs_dir = EmptyDict
    /\ sessions = EmptyDict
    /\ clock = 0
    /\ pc = [p \in Procs |-> "none"]
    /\ tasks = [p \in Procs |-> EmptyDict]
    /\ next_task_id = [p \in Procs |-> 0]
    /\ stop_arg = [p \in Procs |-> None]
    /\ notified = EmptyDict
    /\ issued = 0
    /\ writing = None
    /\ trace = <<>>
    /\ ret = Idle

\* a CLI process starts: main() builds its TaskManager
Construct(p) ==
    /\ Quiet
    /\ pc[p] = "none"
    /\ \E w \in {NewController(FreshWorld(p))} :
          /\ pc' = [pc EXCEPT ![p] = IF w.raised THEN "none" ELSE "ready"]
          /\ Commit(w, "construct", None)
    /\ UNCHANGED stop_arg

\* the process ends; its controller is dropped
Exit(p) ==
    /\ CanCall(p)
    /\ pc' = [pc EXCEPT ![p] = "none"]
    /\ tasks' = [tasks EXCEPT ![p] = EmptyDict]
    /\ next_task_id' = [next_task_id EXCEPT ![p] = 0]
    /\ UNCHANGED <<disk, logs_dir, sessions, clock, stop_arg, notified,
                   issued, writing, trace, ret>>

\* create_task; the notifier count restarts with the new task
Create(p) ==
    /\ CanCall(p)
    /\ \E name \in Names, command \in Commands :
          LET w == CreateTask(World(p), name, command)
          IN  Commit(w, "create", w.val)
    /\ UNCHANGED <<pc, stop_arg>>

Start(p, id) ==
    /\ CanCall(p)
    /\ \E tmux_ok \in BOOLEAN : Commit(StartTask(World(p), id, tmux_ok), "start", Some(id))
    /\ UNCHANGED <<pc, stop_arg>>

Reconcile(p, id) ==
    /\ CanCall(p)
    /\ Commit(GetTaskStatus(World(p), id), "reconcile", Some(id))
    /\ UNCHANGED <<pc, stop_arg>>

StopForce(p, id) ==
    /\ CanCall(p)
    /\ Commit(StopTaskForce(World(p), id), "stop_force", Some(id))
    /\ UNCHANGED <<pc, stop_arg>>

\* stop_task(id, False) on a task it refuses
StopRefuse(p, id) ==
    /\ CanCall(p)
    /\ ~StopGuard(World(p), id)
    /\ Commit(Return(World(p), FALSE), "stop", Some(id))
    /\ UNCHANGED <<pc, stop_arg>>

\* stop_task(id, False): the interrupt is sent and the process sleeps
StopBegin(p, id) ==
    /\ CanCall(p)
    /\ StopGuard(World(p), id)
    /\ \E after \in {"job", "exited", "emailed", "shell"} :
          LET w == StopTaskInterrupt(World(p), id, after)
          IN  /\ Commit(w, "stop_sleep", Some(id))
              /\ stop_arg' = [stop_arg EXCEPT ![p] = Some([id |-> id, trace |-> w.trace])]
    /\ pc' = [pc EXCEPT ![p] = "stop_sleep"]

\* stop_task(id, False): the process wakes up and finishes the call
StopEnd(p) ==
    /\ Quiet
    /\ pc[p] = "stop_sleep"
    /\ LET a == stop_arg[p][1]
       IN  Commit(StopTaskResume([World(p) EXCEPT !.trace = a.trace], a.id),
                  "stop", Some(a.id))
    /\ pc' = [pc EXCEPT ![p] = "ready"]
    /\ stop_arg' = [stop_arg EXCEPT ![p] = None]

Cleanup(p, id) ==
    /\ CanCall(p)
    /\ Commit(CleanupTask(World(p), id), "cleanup", Some(id))
    /\ UNCHANGED <<pc, stop_arg>>

\* cleanup_old_tasks; ret.id carries max_age_hours
CleanupOld(p, max_age_hours) ==
    /\ CanCall(p)
    /\ Commit(CleanupOldTasks(World(p), max_age_hours), "cleanup_old", Some(max_age_hours))
    /\ UNCHANGED <<pc, stop_arg>>

\* ---- the same calls while the notifier is out of order

ReconcileNotifierDown(p, id) ==
    /\ CanCall(p)
    /\ Commit(GetTaskStatus(NotifierDown(World(p)), id), "reconcile", Some(id))
    /\ UNCHANGED <<pc, stop_arg>>

StopForceNotifierDown(p, id) ==
    /\ CanCall(p)
    /\ Commit(StopTaskForce(NotifierDown(World(p)), id), "stop_force", Some(id))
    /\ UNCHANGED <<pc, stop_arg>>

StopEndNotifierDown(p) ==
    /\ Quiet
    /\ pc[p] = "stop_sleep"
    /\ LET a == stop_arg[p][1]
       IN  Commit(StopTaskResume([NotifierDown(World(p)) EXCEPT !.trace = a.trace], a.id),
                  "stop", Some(a.id))
    /\ pc' = [pc EXCEPT ![p] = "ready"]
    /\ stop_arg' = [stop_arg EXCEPT ![p] = None]

\* ---- the same calls while one tmux subcommand returns non-zero

StartToolFails(p, id) ==
    /\ CanCall(p)
    /\ \E cmd \in {"pipe-pane", "send-keys", "write-log"} :
          Commit(StartTask(ToolFails(World(p), {cmd}), id, TRUE), "start", Some(id))
    /\ UNCHANGED <<pc, stop_arg>>

StopForceToolFails(p, id) ==
    /\ CanCall(p)
    /\ Commit(StopTaskForce(ToolFails(World(p), {"kill-session"}), id), "stop_force", Some(id))
    /\ UNCHANGED <<pc, stop_arg>>

StopEndToolFails(p) ==
    /\ Quiet
    /\ pc[p] = "stop_sleep"
    /\ LET a == stop_arg[p][1]
       IN  Commit(StopTaskResume([ToolFails(World(p), {"kill-session"})
                                     EXCEPT !.trace = a.trace], a.id),
                  "stop", Some(a.id))
    /\ pc' = [pc EXCEPT ![p] = "ready"]
    /\ stop_arg' = [stop_arg EXCEPT ![p] = None]

\* ---- the same calls while tasks.json cannot be written

CreateDiskDown(p) ==
    /\ CanCall(p)
    /\ \E name \in Names, command \in Commands :
          LET w == CreateTask(DiskDown(World(p)), name, command)
          IN  Commit(w, "create", w.val)
    /\ UNCHANGED <<pc, stop_arg>>

StartDiskDown(p, id) ==
    /\ CanCall(p)
    /\ \E tmux_ok \in BOOLEAN :
          Commit(StartTask(DiskDown(World(p)), id, tmux_ok), "start", Some(id))
    /\ UNCHANGED <<pc, stop_arg>>

StopForceDiskDown(p, id) ==
    /\ CanCall(p)
    /\ Commit(StopTaskForce(DiskDown(World(p)), id), "stop_force", Some(id))
    /\ UNCHANGED <<pc, stop_arg>>

CleanupDiskDown(p, id) ==
    /\ CanCall(p)
    /\ Commit(CleanupTask(DiskDown(World(p)), id), "cleanup", Some(id))
    /\ UNCHANGED <<pc, stop_arg>>

\* ---- short-lived CLI processes: main() builds a controller, runs one
\* ---- command and ends, while the controllers of Procs stay alive

\* cli.cmd_run: create_task, then start_task on the new id
CmdRun(w, name, command, tmux_ok) ==
    LET c == CreateTask(w, name, command)
    IN  StartTask(c, c.val[1], tmux_ok)

CliRun ==
    /\ Quiet
    /\ \E name \in Names, command \in Commands, tmux_ok \in BOOLEAN :
          LET c == CreateTask(NewController(FreshWorld("run")), name, command)
              w == CmdRun(NewController(FreshWorld("run")), name, command, tmux_ok)
          IN  Commit(w, "cli_run", c.val)
    /\ UNCHANGED <<pc, stop_arg>>

\* `task run` up to the open(self.tasks_file, 'w') of create_task's save: the
\* file is truncated, json.dump has not written the new content yet
CliRunOpen ==
    /\ Quiet
    /\ writing = None
    /\ \E name \in Names, command \in Commands :
          LET c == CreateTask(NewController(FreshWorld("run")), name, command)
          IN  /\ Committed(c, "cli_run_open", c.val)
              /\ disk' = EmptyDict
              /\ writing' = Some([old |-> disk, tasks |-> c.tasks,
                                  next_task_id |-> c.next_task_id, id |-> c.val[1]])
    /\ UNCHANGED <<pc, stop_arg>>

\* the same `task run` from the end of json.dump on: the file holds the new
\* content, then start_task runs
CliRunWrite ==
    /\ Quiet
    /\ writing # None
    /\ \E tmux_ok \in BOOLEAN :
          LET a == writing[1]
              w == [FreshWorld("run") EXCEPT !.tasks = a.tasks,
                                             !.next_task_id = a.next_task_id,
                                             !.disk = DumpTasks(a.tasks)]
          IN  /\ Committed(StartTask(w, a.id, tmux_ok), "cli_run_write", Some(a.id))
              /\ disk' = StartTask(w, a.id, tmux_ok).disk
              /\ writing' = None
    /\ UNCHANGED <<pc, stop_arg>>

\* cli.cmd_run with fewer than two arguments: the usage text and sys.exit(1)
CmdRunUsage(w) == SysExit(w, 1)

\* `task run` without its arguments; main() has built the controller before
CliRunUsage ==
    /\ Quiet
    /\ Commit(CmdRunUsage(NewController(FreshWorld("run"))), "cli_usage", None)
    /\ UNCHANGED <<pc, stop_arg>>

\* cli.cmd_status
CliStatus(id) ==
    /\ Quiet
    /\ Commit(GetTaskStatus(NewController(FreshWorld("status")), id),
              "cli_status", Some(id))
    /\ UNCHANGED <<pc, stop_arg>>

\* cli.cmd_kill with --force
CliKillForce(id) ==
    /\ Quiet
    /\ Commit(StopTaskForce(NewController(FreshWorld("kill")), id),
              "cli_kill", Some(id))
    /\ UNCHANGED <<pc, stop_arg>>

\* cli.cmd_cleanup with a task id
CliCleanup(id) ==
    /\ Quiet
    /\ Commit(CleanupTask(NewController(FreshWorld("cleanup")), id),
              "cli_cleanup", Some(id))
    /\ UNCHANGED <<pc, stop_arg>>

\* cli.cmd_cleanup without a task id: -t <hours>
CliCleanupOld(max_age_hours) ==
    /\ Quiet
    /\ Commit(CleanupOldTasks(NewController(FreshWorld("cleanup")), max_age_hours),
              "cli_cleanup_old", Some(max_age_hours))
    /\ UNCHANGED <<pc, stop_arg>>

\* exit statuses of the submitted command
ExitCodes == {0, 1}

\* the job of a session ends by itself; the list goes on after ";" whatever
\* the exit status of ({inner})
JobExit(name) ==
    /\ Quiet
    /\ name \in DOMAIN sessions
    /\ sessions[name].state = "job"
    /\ \E code \in ExitCodes : sessions' = [sessions EXCEPT ![name].state = "exited"]
    /\ UNCHANGED <<disk, logs_dir, clock, pc, tasks, next_task_id, stop_arg,
                   notified, issued, writing, trace, ret>>

\* the wrapper runs `python -m task_manager.cli _send_email <id>` in the pane
WrapperEmail(name) ==
    /\ Quiet
    /\ name \in DOMAIN sessions
    /\ sessions[name].state = "exited"
    /\ \E id \in {sessions[name].cmd[1].email} :
          \E w \in {CmdSendEmail(NewController(FreshWorld("wrapper")), id)} :
             Commit([w EXCEPT !.sessions[name].state = "emailed"], "send_email", Some(id))
    /\ UNCHANGED <<pc, stop_arg>>

\* the wrapper runs `tmux kill-session -t <session>` in the pane
WrapperKill(name) ==
    /\ Quiet
    /\ name \in DOMAIN sessions
    /\ sessions[name].state = "emailed"
    /\ sessions' = TmuxKillSession(FreshWorld("wrapper"), sessions[name].cmd[1].kill).sessions
    /\ UNCHANGED <<disk, logs_dir, clock, pc, tasks, next_task_id, stop_arg,
                   notified, issued, writing, trace, ret>>

\* the caller has looked at the result of the latest call
Resume ==
    /\ ~Quiet
    /\ ret' = Idle
    /\ trace' = <<>>
    /\ UNCHANGED <<disk, logs_dir, sessions, clock, pc, tasks, next_task_id,
                   stop_arg, notified, issued, writing>>

SessionNames == {SessionName(id) : id \in AllIds}

\* values of max_age_hours the callers pass
AgeArgs == {0, 1}

Next ==
    \/ \E p \in Procs : Construct(p)
    \/ \E p \in Procs : Exit(p)
    \/ \E p \in Procs : Create(p)
    \/ \E p \in Procs, id \in AllIds : Start(p, id)
    \/ \E p \in Procs, id \in AllIds : Reconcile(p, id)
    \/ \E p \in Procs, id \in AllIds : StopForce(p, id)
    \/ \E p \in Procs, id \in AllIds : StopRefuse(p, id)
    \/ \E p \in Procs, id \in AllIds : StopBegin(p, id)
    \/ \E p \in Procs : StopEnd(p)
    \/ \E p \in Procs, id \in AllIds : Cleanup(p, id)
    \/ \E p \in Procs, h \in AgeArgs : CleanupOld(p, h)
    \/ CliRun
    \/ \E id \in AllIds : CliStatus(id)
    \/ \E id \in AllIds : CliKillForce(id)
    \/ \E id \in AllIds : CliCleanup(id)
    \/ \E h \in AgeArgs : CliCleanupOld(h)
    \/ \E name \in SessionNames : JobExit(name)
    \/ \E name \in SessionNames : WrapperEmail(name)
    \/ \E name \in SessionNames : WrapperKill(name)
    \/ Resume

Spec == Init /\ [][Next]_vars

\* the CLI used from one shell: every invocation builds its controller, runs
\* one command to its end and exits before the next one starts
NextCli ==
    \/ CliRun
    \/ \E id \in AllIds : CliStatus(id)
    \/ \E id \in AllIds : CliKillForce(id)
    \/ \E id \in AllIds : CliCleanup(id)
    \/ \E h \in AgeArgs : CliCleanupOld(h)
    \/ \E name \in SessionNames : JobExit(name)
    \/ \E name \in SessionNames : WrapperEmail(name)
    \/ \E name \in SessionNames : WrapperKill(name)
    \/ Resume

SpecCli == Init /\ [][NextCli]_vars

\* invocations that load the registry while a `task run` is saving it
NextTorn ==
    \/ \E p \in Procs : Construct(p)
    \/ \E p \in Procs : Exit(p)
    \/ \E p \in Procs, id \in AllIds : Reconcile(p, id)
    \/ \E id \in AllIds : CliStatus(id)
    \/ CliRunOpen
    \/ CliRunWrite
    \/ \E name \in SessionNames : JobExit(name)
    \/ Resume

SpecTorn == Init /\ [][NextTorn]_vars

\* sessions whose wrapper has yet to run its notification command
AwaitingEmail == {n \in DOMAIN sessions : sessions[n].state \in {"job", "exited"}}

\* a `task run` made while the clock bound leaves room for the notification
\* commands of the sessions, the new one included
RunJob ==
    /\ clock + 1 + Cardinality(AwaitingEmail) < MaxTime
    /\ CliRun

\* jobs are submitted and left to the panes: the CLI is not needed again, at
\* most a status is asked for
NextJob ==
    \/ RunJob
    \/ \E id \in AllIds : CliStatus(id)
    \/ \E name \in SessionNames : JobExit(name)
    \/ \E name \in SessionNames : WrapperEmail(name)
    \/ \E name \in SessionNames : WrapperKill(name)
    \/ Resume

\* the shell of a pane runs the commands of its list one after the other:
\* each starts when the one before it has ended, whatever CLI processes do
\* meanwhile (a call that is being looked at only delays the step: SF)
SpecJob ==
    /\ Init /\ [][NextJob]_vars
    /\ WF_vars(Resume)
    /\ \A name \in SessionNames :
          SF_vars(WrapperEmail(name)) /\ SF_vars(WrapperKill(name))

\* Task records under id, and the registries made of them
Records(id) ==
    {[NewTask(id, "build", "make all", 0) EXCEPT
          !.status = s, !.start_time = st, !.end_time = et, !.pid = pd,
          !.exit_code = ec, !.error_message = em] :
       s \in {"pending", "running", "completed"},
       st \in {None, Some(0)}, et \in {None, Some(1)}, pd \in {None, Some(4242)},
       ec \in {None, Some(0)}, em \in {None, Some(TmuxErr)}}

RECURSIVE RegistriesOver(_)
RegistriesOver(ids) ==
    IF ids = {} THEN {EmptyDict}
    ELSE LET id == CHOOSE x \in ids : TRUE
         IN  {Put(reg, id, r) : reg \in RegistriesOver(ids \ {id}), r \in Records(id)}

Registries(all) == UNION {RegistriesOver(ids) : ids \in SUBSET all}

\* a controller that holds any registry
InitRoundTrip ==
    /\ \E reg \in Registries(AllIds) :
          /\ tasks = [p \in Procs |-> reg]
          /\ next_task_id = [p \in Procs |-> GetNextTaskId(reg)]
    /\ disk = EmptyDict
    /\ logs_dir = EmptyDict
    /\ sessions = EmptyDict
    /\ clock = 0
    /\ pc = [p \in Procs |-> "ready"]
    /\ stop_arg = [p \in Procs |-> None]
    /\ notified = EmptyDict
    /\ issued = 0
    /\ writing = None
    /\ trace = <<>>
    /\ ret = Idle

\* _save_tasks
Save(p) ==
    /\ CanCall(p)
    /\ Commit(SaveTasks(World(p)), "save", None)
    /\ UNCHANGED <<pc, stop_arg>>

\* the registry is saved, and loaded by the next controller
NextRoundTrip ==
    \/ \E p \in Procs : Save(p)
    \/ \E p \in Procs : Exit(p)
    \/ \E p \in Procs : Construct(p)
    \/ Resume

SpecRoundTrip == InitRoundTrip /\ [][NextRoundTrip]_vars

\* sequential CLI invocations, usage errors included
NextExit ==
    \/ NextCli
    \/ CliRunUsage

SpecExit == Init /\ [][NextExit]_vars

\* ---- output retrieval

MaxText == 3
Chars == {"a", "b", "\n"}
Texts == UNION {[1..n -> Chars] : n \in 0..MaxText}

\* values of --lines
LineArgs == {-1, 0, 1, 2}

\* get_tmux_output; ret.id carries the two arguments
Output(p, id, lines) ==
    /\ CanCall(p)
    /\ Commit(GetTmuxOutput(World(p), id, lines), "output",
              Some([task_id |-> id, lines |-> lines]))
    /\ UNCHANGED <<pc, stop_arg>>

\* get_tmux_output on an id the registry of the controller does not hold
OutputUnknown(p, id, lines) ==
    /\ id \notin Keys(tasks[p])
    /\ Output(p, id, lines)

\* a controller holds one started task; its session, when still open, shows
\* any text, and its log file, when there is one, holds any text
InitOutput ==
    /\ \E status \in {"running", "completed"} :
          LET task == [NewTask(FormatId(1), "build", "make all", 0) EXCEPT
                          !.status = status, !.start_time = Some(0),
                          !.end_time = IF status = "completed" THEN Some(0) ELSE None]
              reg  == (FormatId(1) :> task)
          IN  /\ tasks = [p \in Procs |-> reg]
              /\ disk = DumpTasks(reg)
              /\ \/ sessions = EmptyDict
                 \/ \E pane \in Texts :
                       sessions = (task.tmux_session :>
                                      [state |-> "job", pipe |-> Some(LogName(task.id)),
                                       cmd |-> Some(FullCmd(task)), pane |-> pane])
    /\ \/ logs_dir = (EmailLog :> "log")
       \/ \E text \in Texts : logs_dir = (EmailLog :> "log") @@ (LogName(FormatId(1)) :> text)
    /\ next_task_id = [p \in Procs |-> 2]
    /\ clock = 1
    /\ pc = [p \in Procs |-> "ready"]
    /\ stop_arg = [p \in Procs |-> None]
    /\ notified = EmptyDict
    /\ issued = 1
    /\ writing = None
    /\ trace = <<>>
    /\ ret = Idle

NextOutput ==
    \/ \E p \in Procs, id \in AllIds, lines \in LineArgs : Output(p, id, lines)
    \/ \E p \in Procs, id \in AllIds : Cleanup(p, id)
    \/ Resume

SpecOutput == InitOutput /\ [][NextOutput]_vars

\* contents of tasks.json that no save of this program wrote
Corrupt == (<<"?">> :> [junk |-> TRUE])
Foreign == (<<"a">> :> Serialize(NewTask(<<"a">>, "build", "make all", 0)))
Saved   == (FormatId(1) :> Serialize(NewTask(FormatId(1), "build", "make all", 0)))
Files   == {EmptyDict, Corrupt, Foreign, Saved}

\* a controller is built on whatever file it finds, and used
InitLoad ==
    /\ disk \in Files
    /\ logs_dir = EmptyDict
    /\ sessions = EmptyDict
    /\ clock = 0
    /\ pc = [p \in Procs |-> "none"]
    /\ tasks = [p \in Procs |-> EmptyDict]
    /\ next_task_id = [p \in Procs |-> 0]
    /\ stop_arg = [p \in Procs |-> None]
    /\ notified = EmptyDict
    /\ issued = 0
    /\ writing = None
    /\ trace = <<>>
    /\ ret = Idle

NextLoad ==
    \/ \E p \in Procs : Construct(p)
    \/ \E p \in Procs : Exit(p)
    \/ \E p \in Procs : Create(p)
    \/ \E p \in Procs, id \in AllIds : Start(p, id)
    \/ \E p \in Procs, id \in AllIds : Reconcile(p, id)
    \/ \E name \in SessionNames : JobExit(name)
    \/ Resume

SpecLoad == InitLoad /\ [][NextLoad]_vars

\* every call of Spec, and reconcile and stop with a notifier that raises
NextNotifier ==
    \/ Next
    \/ \E p \in Procs, id \in AllIds : ReconcileNotifierDown(p, id)
    \/ \E p \in Procs, id \in AllIds : StopForceNotifierDown(p, id)
    \/ \E p \in Procs : StopEndNotifierDown(p)

SpecNotifier == Init /\ [][NextNotifier]_vars

\* every call of Spec, and start and stop with a tmux subcommand that fails
NextTools ==
    \/ Next
    \/ \E p \in Procs, id \in AllIds : StartToolFails(p, id)
    \/ \E p \in Procs, id \in AllIds : StopForceToolFails(p, id)
    \/ \E p \in Procs : StopEndToolFails(p)

SpecTools == Init /\ [][NextTools]_vars

\* the calls of one controller, with and without a tasks.json that can be written
NextDisk ==
    \/ \E p \in Procs : Construct(p)
    \/ \E p \in Procs : Exit(p)
    \/ \E p \in Procs : Create(p)
    \/ \E p \in Procs : CreateDiskDown(p)
    \/ \E p \in Procs, id \in AllIds : Start(p, id)
    \/ \E p \in Procs, id \in AllIds : StartDiskDown(p, id)
    \/ \E p \in Procs, id \in AllIds : StopForce(p, id)
    \/ \E p \in Procs, id \in AllIds : StopForceDiskDown(p, id)
    \/ \E p \in Procs, id \in AllIds : Cleanup(p, id)
    \/ \E p \in Procs, id \in AllIds : CleanupDiskDown(p, id)
    \/ \E p \in Procs, id \in AllIds : Reconcile(p, id)
    \/ \E name \in SessionNames : JobExit(name)
    \/ \E name \in SessionNames : WrapperEmail(name)
    \/ \E name \in SessionNames : WrapperKill(name)
    \/ Resume

SpecDisk == Init /\ [][NextDisk]_vars

\* ---- the monitor loop

\* the value of --lines the monitor passes by default
MonitorLines == 50

Live == {"running", "pending"}

\* faulty variant: the output is captured before the status is looked at
MonitorIterationCaptureFirst(w, id, lines) ==
    LET s == GetTaskStatus(w, id)
        c == GetTmuxOutput(s, id, lines)
    IN  IF s.val = None \/ s.tasks[id].status \notin Live
        THEN Emit(c, "break")
        ELSE Emit(c, "sleep")

\* one pass of the while True of cmd_monitor: lines 377-395
MonitorIteration(w, id, lines) ==
    LET s == GetTaskStatus(w, id)
    IN  IF s.val = None \/ s.tasks[id].status \notin Live
        THEN Emit(s, "break")
        ELSE Emit(GetTmuxOutput(s, id, lines), "sleep")

\* `task monitor <id>` on an id the registry does not hold: a message, no loop
MonitorUnknown(p, id) ==
    /\ CanCall(p)
    /\ id \notin Keys(tasks[p])
    /\ Commit(World(p), "monitor_unknown", Some(id))
    /\ UNCHANGED <<pc, stop_arg>>

\* `task monitor <id>` up to the loop
MonitorBegin(p, id) ==
    /\ CanCall(p)
    /\ id \in Keys(tasks[p])
    /\ Commit(World(p), "monitor_begin", Some(id))
    /\ pc' = [pc EXCEPT ![p] = "monitor"]
    /\ stop_arg' = [stop_arg EXCEPT ![p] = Some([id |-> id, trace |-> <<>>])]

\* one pass of the loop, up to the break or to the end of time.sleep(refresh)
MonitorIterate(p) ==
    /\ Quiet
    /\ pc[p] = "monitor"
    /\ \E w \in {MonitorIteration(World(p), stop_arg[p][1].id, MonitorLines)} :
          /\ Commit(w, "monitor", Some(stop_arg[p][1].id))
          /\ pc' = [pc EXCEPT ![p] = IF Has(w.trace, "break") THEN "ready" ELSE "monitor"]
          /\ stop_arg' = [stop_arg EXCEPT ![p] = IF Has(w.trace, "break") THEN None ELSE @]

\* KeyboardInterrupt reaches the loop
MonitorInterrupt(p) ==
    /\ Quiet
    /\ pc[p] = "monitor"
    /\ Commit(World(p), "monitor_interrupt", Some(stop_arg[p][1].id))
    /\ pc' = [pc EXCEPT ![p] = "ready"]
    /\ stop_arg' = [stop_arg EXCEPT ![p] = None]

\* what the pane of a session shows
Panes == {<<>>, <<"a">>}

\* a controller holds one or two tasks, each pending or started; the session
\* of a started task runs the job, or is closed already ("none")
InitMonitor ==
    /\ \E MonitorIds \in {{FormatId(1)}, {FormatId(1), FormatId(2)}} :
       \E status \in [MonitorIds -> Live], pane \in Panes,
          state \in [MonitorIds -> {"none", "job"}] :
          LET reg  == [id \in MonitorIds |->
                          [NewTask(id, "build", "make all", 0) EXCEPT
                              !.status = status[id],
                              !.start_time = IF status[id] = "running" THEN Some(0) ELSE None]]
              open == {id \in MonitorIds : state[id] # "none"}
              logs == {id \in MonitorIds : status[id] = "running"}
          IN  /\ \A id \in MonitorIds : status[id] = "pending" => state[id] = "none"
              /\ tasks = [p \in Procs |-> reg]
              /\ disk = DumpTasks(reg)
              /\ sessions = [name \in {SessionName(id) : id \in open} |->
                                LET id == CHOOSE i \in open : SessionName(i) = name
                                IN  [state |-> state[id], pipe |-> Some(LogName(id)),
                                     cmd |-> Some(FullCmd(reg[id])), pane |-> pane]]
              /\ logs_dir = [f \in {EmailLog} \cup {LogName(id) : id \in logs} |->
                                IF f = EmailLog THEN "log" ELSE <<"a">>]
    /\ next_task_id = [p \in Procs |-> GetNextTaskId(tasks[p])]
    /\ clock = 0
    /\ pc = [p \in Procs |-> "ready"]
    /\ stop_arg = [p \in Procs |-> None]
    /\ notified = EmptyDict
    /\ issued = Cardinality(DOMAIN disk)
    /\ writing = None
    /\ trace = <<>>
    /\ ret = Idle

NextMonitor ==
    \/ \E p \in Procs, id \in AllIds : MonitorUnknown(p, id)
    \/ \E p \in Procs, id \in AllIds : MonitorBegin(p, id)
    \/ \E p \in Procs : MonitorIterate(p)
    \/ \E p \in Procs : MonitorInterrupt(p)
    \/ \E name \in SessionNames : JobExit(name)
    \/ \E name \in SessionNames : WrapperEmail(name)
    \/ \E name \in SessionNames : WrapperKill(name)
    \/ Resume

\* the loop is a sequential program: a pass that can be made is made, and the
\* caller goes on after each call
SpecMonitor ==
    /\ InitMonitor /\ [][NextMonitor]_vars
    /\ WF_vars(Resume)
    /\ \A p \in Procs : WF_vars(MonitorIterate(p))

\* ---- the allocation loop of create_task, one pass at a time

\* the counter values from AllocCap on are one value: while the loop runs,
\* none of them is the number of a registry key or of a file of the directory
AllocCap == MaxId

\* the ids below AllocCap
LowIds == {FormatId(n) : n \in 1..(AllocCap - 1)}

\* one pass of the while True of create_task; listing_ok = FALSE: the glob of
\* the logs directory raises, and the except branch sets has_logs
AllocationPass(w, listing_ok) ==
    LET candidate == FormatId(w.next_task_id)
        skipped   == [w EXCEPT !.next_task_id = IF @ < AllocCap THEN @ + 1 ELSE @]
    IN  IF candidate \in Keys(w.tasks) THEN Emit(skipped, "skip")
        ELSE IF ~listing_ok THEN Emit(Emit(skipped, "glob-error"), "skip")
        ELSE IF HasLogs(w.logs_dir, candidate) THEN Emit(skipped, "skip")
        ELSE Emit(w, "found")

\* create_task from "Found usable id" on
CreateFound(w, name, command) ==
    LET n   == w.next_task_id
        id  == FormatId(n)
        w1  == [Timed(w) EXCEPT !.tasks = Put(@, id, NewTask(id, name, command, Now(w))),
                                !.next_task_id = n + 1 + 1]
        w2  == SaveTasks(w1)
    IN  [w2 EXCEPT !.val = Some(id)]

\* create_task is called, with a counter that has not passed AllocCap
AllocBegin(p) ==
    /\ CanCall(p)
    /\ next_task_id[p] <= AllocCap
    /\ Commit(World(p), "create_begin", None)
    /\ pc' = [pc EXCEPT ![p] = "alloc"]
    /\ UNCHANGED stop_arg

\* the loop makes a pass; the pass that finds an id goes on to the end of
\* create_task
AllocPass(p) ==
    /\ Quiet
    /\ pc[p] = "alloc"
    /\ \E listing_ok \in BOOLEAN, name \in Names, command \in Commands :
          \E w \in {AllocationPass(World(p), listing_ok)} :
             IF Has(w.trace, "found")
             THEN \E c \in {CreateFound(w, name, command)} :
                     /\ Commit(c, "create", c.val)
                     /\ pc' = [pc EXCEPT ![p] = "ready"]
             ELSE /\ Commit(w, "create_pass", None)
                  /\ pc' = pc
    /\ UNCHANGED stop_arg

\* a controller holds any registry of pending tasks, its counter is past its
\* keys, and the directory holds any log files
InitAlloc ==
    /\ \E ids \in SUBSET LowIds, logs \in SUBSET LowIds :
          LET reg == [id \in ids |-> NewTask(id, "build", "make all", 0)]
          IN  /\ tasks = [p \in Procs |-> reg]
              /\ disk = DumpTasks(reg)
              /\ logs_dir = [f \in {EmailLog} \cup {LogName(id) : id \in logs} |->
                                IF f = EmailLog THEN "log" ELSE <<"a">>]
              /\ \E n \in GetNextTaskId(reg)..AllocCap : next_task_id = [p \in Procs |-> n]
              /\ issued = MaxOf({ParseId(id) : id \in ids \cup logs})
    /\ sessions = EmptyDict
    /\ clock = 0
    /\ pc = [p \in Procs |-> "ready"]
    /\ stop_arg = [p \in Procs |-> None]
    /\ notified = EmptyDict
    /\ writing = None
    /\ trace = <<>>
    /\ ret = Idle

NextAlloc ==
    \/ \E p \in Procs : AllocBegin(p)
    \/ \E p \in Procs : AllocPass(p)
    \/ \E p \in Procs, id \in AllIds : Start(p, id)
    \/ \E p \in Procs, id \in AllIds : Cleanup(p, id)
    \/ Resume

\* create_task is sequential code: a pass that can be made is made
SpecAlloc ==
    /\ InitAlloc /\ [][NextAlloc]_vars
    /\ WF_vars(Resume)
    /\ \A p \in Procs : WF_vars(AllocPass(p))

\* every call of Spec, and the output of ids the controller does not hold
NextUnknown ==
    \/ Next
    \/ \E p \in Procs, id \in AllIds, lines \in LineArgs : OutputUnknown(p, id, lines)

SpecUnknown == Init /\ [][NextUnknown]_vars

\* ---- counter values around the padded width

MaxWide == 100001   \* largest counter value an id is made of here

\* counter values whose decimal form has IdWidth digits or one more
WideCounters == {9999, 10000, 99999, 100000}
WideIds == {FormatId(n) : n \in WideCounters}

WideBounded(w) ==
    /\ \A k \in Keys(w.tasks) : ParseId(k) <= MaxWide
    /\ w.timed => w.now < MaxTime

\* what a call leaves behind, for ids of any length
CommitWide(w, op, id) ==
    /\ WideBounded(w)
    /\ tasks' = [tasks EXCEPT ![w.proc] = w.tasks]
    /\ next_task_id' = [next_task_id EXCEPT ![w.proc] = w.next_task_id]
    /\ disk' = w.disk
    /\ logs_dir' = w.logs_dir
    /\ sessions' = w.sessions
    /\ notified' = w.notified
    /\ trace' = w.trace
    /\ ret' = [proc |-> w.proc, op |-> op, id |-> id, val |-> w.val, exit |-> w.exit]
    /\ clock' = IF w.timed THEN clock + 1 ELSE clock
    /\ UNCHANGED <<pc, stop_arg, issued, writing>>

CreateWide(p) ==
    /\ CanCall(p)
    /\ \E w \in {CreateTask(World(p), "build", "make all")} : CommitWide(w, "create", w.val)

CleanupWide(p, id) ==
    /\ CanCall(p)
    /\ CommitWide(CleanupTask(World(p), id), "cleanup", Some(id))

\* a controller built on a registry of tasks with such ids; the started ones
\* have their log file, and log files of tasks no longer held may be there
InitWide ==
    /\ \E ids \in SUBSET WideIds, logs \in SUBSET WideIds :
          LET reg == [id \in ids |->
                        IF id \in logs
                        THEN [NewTask(id, "build", "make all", 0) EXCEPT
                                 !.status = "completed", !.start_time = Some(0),
                                 !.end_time = Some(0)]
                        ELSE NewTask(id, "build", "make all", 0)]
          IN  /\ tasks = [p \in Procs |-> reg]
              /\ disk = DumpTasks(reg)
              /\ logs_dir = [f \in {EmailLog} \cup {LogName(id) : id \in logs} |->
                                IF f = EmailLog THEN "log" ELSE <<"a">>]
              /\ next_task_id = [p \in Procs |-> GetNextTaskId(reg)]
              /\ issued = MaxOf({ParseId(id) : id \in ids \cup logs})
    /\ sessions = EmptyDict
    /\ clock = 1
    /\ pc = [p \in Procs |-> "ready"]
    /\ stop_arg = [p \in Procs |-> None]
    /\ notified = EmptyDict
    /\ writing = None
    /\ trace = <<>>
    /\ ret = Idle

NextWide ==
    \/ \E p \in Procs : CreateWide(p)
    \/ \E p \in Procs, id \in WideIds : CleanupWide(p, id)
    \/ Resume

SpecWide == InitWide /\ [][NextWide]_vars

\* ================================================================== claims
\* a handler call is made in this step: op names it
Called(op) == ret.op = "idle" /\ ret'.op = op
CalledBy(op, p) == Called(op) /\ ret'.proc = p
Arg == ret'.id[1]

\* the same task: the same id, created at the same time
SameTask(a, b) == a.id = b.id /\ a.created_time = b.created_time

StaysTerminal(old, new) ==
    \A id \in Keys(old) \cap Keys(new) :
        (old[id].status \in Terminal /\ SameTask(old[id], new[id]))
            => new[id].status = old[id].status

\* C1: once a task is completed, failed or killed, no step changes its status,
\* neither in the memory of a controller nor in the persisted registry.
C1_TerminalAbsorbing ==
    [][ /\ \A p \in Procs : StaysTerminal(tasks[p], tasks'[p])
        /\ StaysTerminal(disk, disk') ]_vars

NoSharedId(reg) ==
    \A k1, k2 \in Keys(reg) : k1 # k2 => reg[k1].id # reg[k2].id

\* C2: no two tasks of a registry share an id, and an id returned by create
\* was, when it was allocated, neither a key of the controller's registry
\* nor the prefix of the name of a file in the logs directory.
C2_FreshId ==
    [][ /\ Called("create") =>
              /\ ret'.val[1] \notin Keys(tasks[ret'.proc])
              /\ ~HasLogs(logs_dir, ret'.val[1])
        /\ Called("cli_run") =>
              /\ Arg \notin Keys(disk)
              /\ ~HasLogs(logs_dir, Arg)
        /\ \A p \in Procs : NoSharedId(tasks'[p]) /\ \A k \in Keys(tasks'[p]) : tasks'[p][k].id = k
        /\ NoSharedId(disk') /\ \A k \in Keys(disk') : disk'[k].id = k ]_vars

\* create skipped the id of a residual log and returned the next one
C2_Witness ==
    /\ ret.op = "create"
    /\ ret.val = Some(FormatId(2))
    /\ LogName(FormatId(1)) \in DOMAIN logs_dir
    /\ FormatId(1) \notin Keys(tasks[ret.proc])
    /\ FormatId(2) \in Keys(disk)

JobEndCaller(c) == c \in {"send_email", "reconcile"}

\* C3: counting the notification command of the wrapper and every reconcile,
\* the notifier is invoked exactly once for a task whose job has exited:
\* it is never invoked a second time.
C3_NotifiedOnce ==
    \A id \in DOMAIN notified : Len(SelectSeq(notified[id], JobEndCaller)) <= 1

\* C4: a reconcile of a task that a reconcile has completed changes neither the
\* controller's registry (status, end_time) nor the file, and does not notify;
\* the same holds of the reconcile of a controller built after the completion.
C4_ReconcileIdempotent ==
    [][ /\ \A p \in Procs :
             (/\ CalledBy("reconcile", p)
              /\ Arg \in Keys(tasks[p])
              /\ tasks[p][Arg].status = "completed")
             => /\ tasks'[p] = tasks[p]
                /\ disk' = disk
                /\ notified' = notified
                /\ trace' = <<>>
        /\ (/\ Called("cli_status")
            /\ Arg \in Keys(disk)
            /\ disk[Arg].status = "completed")
           => /\ disk' = disk
              /\ notified' = notified
              /\ trace' = <<>> ]_vars

\* a second reconcile has returned for a task the first one completed
C4_Witness ==
    /\ ret.op = "reconcile"
    /\ trace = <<>>
    /\ ret.val # None
    /\ ret.val[1].status = "completed"
    /\ ret.val[1].end_time # None
    /\ Get(notified, ret.id[1]) = <<"reconcile">>
    /\ ret.val[1].tmux_session \notin DOMAIN sessions

\* C5: start on a pending task whose session does not open: the status goes
\* to failed without running being stored, error_message holds the tool's
\* error text, the registry is saved and start returns failure.
C5_StartFailure ==
    [][ \A p \in Procs :
          (/\ CalledBy("start", p)
           /\ Arg \in Keys(tasks[p])
           /\ tasks[p][Arg].status = "pending"
           /\ sessions' = sessions)
          => /\ tasks'[p] = [tasks[p] EXCEPT ![Arg].status = "failed",
                                             ![Arg].error_message = Some(TmuxErr)]
             /\ ~Has(trace', "set-running")
             /\ Has(trace', "save")
             /\ LoadTasks(disk') = tasks'[p]
             /\ ret'.val = Some(FALSE) ]_vars

C5_Witness ==
    /\ ret.op = "start"
    /\ ret.val = Some(FALSE)
    /\ trace = <<"new-session", "set-failed", "save">>
    /\ tasks[ret.proc][ret.id[1]].status = "failed"
    /\ tasks[ret.proc][ret.id[1]].error_message = Some(TmuxErr)
    /\ disk[ret.id[1]].status = "failed"

\* C6: start on a task that is running, completed, failed or killed returns
\* failure, opens no session, writes no log and leaves the task and the
\* persisted registry as they were.
C6_StartOnlyFromPending ==
    [][ \A p \in Procs :
          (/\ CalledBy("start", p)
           /\ Arg \in Keys(tasks[p])
           /\ tasks[p][Arg].status \in {"running", "completed", "failed", "killed"})
          => /\ ret'.val = Some(FALSE)
             /\ sessions' = sessions
             /\ logs_dir' = logs_dir
             /\ tasks' = tasks
             /\ disk' = disk
             /\ trace' = <<>> ]_vars

C6_Witness ==
    /\ ret.op = "start"
    /\ ret.val = Some(FALSE)
    /\ trace = <<>>
    /\ ret.id[1] \in Keys(tasks[ret.proc])
    /\ tasks[ret.proc][ret.id[1]].status = "completed"

\* C7: a start whose session opens writes the log header (command, session
\* handle), enables the mirroring into <id>.log, submits the job followed by
\* the notification and the teardown, marks the task running with start_time,
\* saves the registry and returns success, in this order.
C7_StartOrder ==
    [][ \A p \in Procs :
          (/\ CalledBy("start", p)
           /\ Arg \in Keys(tasks[p])
           /\ tasks[p][Arg].status = "pending"
           /\ sessions' # sessions)
          => LET task == tasks[p][Arg]
                 name == task.tmux_session
             IN  /\ trace' = <<"new-session", "write-log", "pipe-pane", "send-keys",
                               "set-running", "save">>
                 /\ logs_dir'[LogName(Arg)].command = task.command
                 /\ logs_dir'[LogName(Arg)].session = name
                 /\ sessions'[name].pipe = Some(LogName(Arg))
                 /\ sessions'[name].state = "job"
                 /\ sessions'[name].cmd =
                        Some([inner |-> task.command, email |-> Arg, kill |-> name])
                 /\ tasks'[p][Arg].status = "running"
                 /\ tasks'[p][Arg].start_time = Some(clock)
                 /\ LoadTasks(disk') = tasks'[p]
                 /\ ret'.val = Some(TRUE) ]_vars

C7_Witness ==
    /\ ret.op = "start"
    /\ ret.val = Some(TRUE)
    /\ tasks[ret.proc][ret.id[1]].status = "running"
    /\ disk[ret.id[1]].status = "running"
    /\ LogName(ret.id[1]) \in DOMAIN logs_dir
    /\ sessions[SessionName(ret.id[1])].state = "job"

\* C8: reconcile changes a task only when its status is running and the probe
\* finds no session: then the status is completed, end_time is set, the
\* registry is saved and the notifier invoked; otherwise nothing changes.
C8_ReconcileEffect ==
    [][ \A p \in Procs :
          (CalledBy("reconcile", p) /\ Arg \in Keys(tasks[p]))
          => IF /\ tasks[p][Arg].status = "running"
                /\ tasks[p][Arg].tmux_session \notin DOMAIN sessions
             THEN /\ tasks'[p] = [tasks[p] EXCEPT ![Arg].status = "completed",
                                                  ![Arg].end_time = Some(clock)]
                  /\ disk' = DumpTasks(tasks'[p])
                  /\ notified' = Put(notified, Arg, Append(Get(notified, Arg), "reconcile"))
             ELSE /\ tasks'[p] = tasks[p]
                  /\ disk' = disk
                  /\ notified' = notified ]_vars

C8_Witness ==
    /\ ret.op = "reconcile"
    /\ trace = <<"has-session", "set-completed", "save", "notify">>
    /\ tasks[ret.proc][ret.id[1]].status = "completed"
    /\ tasks[ret.proc][ret.id[1]].end_time # None
    /\ disk[ret.id[1]].status = "completed"

Stopped(p, id, status) ==
    /\ tasks'[p] = [tasks[p] EXCEPT ![id].status = status, ![id].end_time = Some(clock)]
    /\ disk' = DumpTasks(tasks'[p])
    /\ notified' = Put(notified, id, Append(Get(notified, id), "stop"))
    /\ ret'.val = Some(TRUE)

Refused ==
    /\ ret'.val = Some(FALSE)
    /\ tasks' = tasks
    /\ disk' = disk
    /\ notified' = notified
    /\ sessions' = sessions
    /\ logs_dir' = logs_dir

\* C9: stop on a pending or running task returns success with status killed
\* (forced) or completed (not forced), end_time set, the registry saved and
\* the notifier invoked; on a terminal task it returns failure and changes
\* nothing.
C9_StopResult ==
    [][ \A p \in Procs :
          /\ (CalledBy("stop_force", p) /\ Arg \in Keys(tasks[p]))
             => IF tasks[p][Arg].status \in {"pending", "running"}
                THEN Stopped(p, Arg, "killed") ELSE Refused
          /\ (CalledBy("stop", p) /\ Arg \in Keys(tasks[p]))
             => IF tasks[p][Arg].status \in {"pending", "running"}
                THEN Stopped(p, Arg, "completed") ELSE Refused ]_vars

C9_Witness ==
    /\ ret.op = "stop_force"
    /\ ret.val = Some(TRUE)
    /\ tasks[ret.proc][ret.id[1]].status = "killed"
    /\ tasks[ret.proc][ret.id[1]].start_time # None
    /\ tasks[ret.proc][ret.id[1]].end_time # None
    /\ disk[ret.id[1]].status = "killed"
    /\ Get(notified, ret.id[1]) = <<"stop">>

\* C10: a stop that is not forced sends the interrupt, sleeps, probes the
\* session and tears it down only when the probe finds it; a forced stop
\* tears it down at once and sends no interrupt; the status changes after
\* these commands.
C10_TwoPhaseStop ==
    [][ \A p \in Procs :
          /\ CalledBy("stop_sleep", p)
             => /\ trace' = <<"send-ctrl-c", "sleep">>
                /\ pc'[p] = "stop_sleep"
                /\ tasks' = tasks
                /\ disk' = disk
          /\ (CalledBy("stop", p) /\ ret'.val = Some(TRUE))
             => /\ pc[p] = "stop_sleep"
                /\ trace' =
                     IF tasks[p][Arg].tmux_session \in DOMAIN sessions
                     THEN <<"send-ctrl-c", "sleep", "has-session", "kill-session",
                            "set-completed", "save", "notify">>
                     ELSE <<"send-ctrl-c", "sleep", "has-session",
                            "set-completed", "save", "notify">>
          /\ (CalledBy("stop_force", p) /\ ret'.val = Some(TRUE))
             => trace' = <<"kill-session", "set-killed", "save", "notify">> ]_vars

\* the session went away during the grace interval: no teardown was issued
C10_Witness ==
    /\ ret.op = "stop"
    /\ trace = <<"send-ctrl-c", "sleep", "has-session", "set-completed", "save", "notify">>
    /\ tasks[ret.proc][ret.id[1]].start_time # None
    /\ Get(notified, ret.id[1]) = <<"send_email", "stop">>

C12_CleanupAbsent ==
    [][ /\ \A p \in Procs :
             (CalledBy("cleanup", p) /\ Arg \notin Keys(tasks[p]))
             => /\ ret'.val = Some(FALSE)
                /\ tasks' = tasks
                /\ disk' = disk
                /\ logs_dir' = logs_dir
                /\ sessions' = sessions
                /\ trace' = <<>>
        /\ (Called("cli_cleanup") /\ Arg \notin Keys(disk))
           => /\ ret'.val = Some(FALSE)
              /\ disk' = disk
              /\ \A f \in DOMAIN logs_dir : f \in DOMAIN logs_dir' /\ logs_dir'[f] = logs_dir[f]
              /\ DOMAIN logs_dir' \subseteq DOMAIN logs_dir \cup {EmailLog}
              /\ sessions' = sessions
              /\ trace' = <<>> ]_vars

\* the second cleanup of 00001: the counter has passed it, the registry and
\* the logs directory no longer hold it
C12_Witness ==
    /\ ret.op = "cleanup"
    /\ ret.val = Some(FALSE)
    /\ ret.id = Some(FormatId(1))
    /\ next_task_id[ret.proc] > 1
    /\ FormatId(1) \notin Keys(tasks[ret.proc])
    /\ FormatId(1) \notin Keys(disk)
    /\ ~HasLogs(logs_dir, FormatId(1))

\* the keys cleanup_by_age must remove from reg at time now
Swept(reg, now, max_age_hours) ==
    {id \in Keys(reg) :
        /\ reg[id].status \in Terminal
        /\ reg[id].end_time # None
        /\ now - reg[id].end_time[1] > max_age_hours}

\* C13: cleanup_by_age(max_age_hours) removes exactly the terminal tasks that
\* have an end_time more than max_age_hours in the past; pending and running
\* tasks, tasks without end_time and younger terminal tasks all stay, with
\* their records unchanged.
C13_CleanupByAge ==
    [][ /\ \A p \in Procs :
             CalledBy("cleanup_old", p)
             => /\ Keys(tasks'[p]) = Keys(tasks[p]) \ Swept(tasks[p], clock, Arg)
                /\ \A id \in Keys(tasks'[p]) : tasks'[p][id] = tasks[p][id]
        /\ Called("cli_cleanup_old")
           => /\ Keys(disk') = Keys(disk) \ Swept(LoadTasks(disk), clock, Arg)
              /\ \A id \in Keys(disk') : disk'[id] = disk[id] ]_vars

\* a sweep removed an old terminal task and kept another task
C13_Witness ==
    /\ ret.op = "cleanup_old"
    /\ Has(trace, "delete-task")
    /\ Keys(tasks[ret.proc]) # {}
    /\ Cardinality(Keys(disk)) = 1

\* the value n is free: its zero-padded form is neither a key of reg nor the
\* prefix of the name of a file of dir
Unused(reg, dir, n) ==
    /\ FormatId(n) \notin Keys(reg)
    /\ \A f \in DOMAIN dir : ~IsPrefix(FormatId(n), f)

\* the least free value that is at least from
LeastUnusedFrom(reg, dir, from) ==
    LET top == from + Cardinality(Keys(reg)) + Cardinality(DOMAIN dir)
    IN  CHOOSE n \in from..top :
            Unused(reg, dir, n) /\ \A m \in from..(n - 1) : ~Unused(reg, dir, m)

\* C14 as stated: each create returns the smallest free value of all.
C14_SmallestUnused ==
    [][ /\ \A p \in Procs :
             CalledBy("create", p)
             => ret'.val[1] = FormatId(LeastUnusedFrom(tasks[p], logs_dir, 1))
        /\ Called("cli_run")
           => Arg = FormatId(LeastUnusedFrom(LoadTasks(disk), logs_dir, 1)) ]_vars

\* C14 amended: each create returns the smallest free value that is not
\* below the counter of its controller, in zero-padded form of the fixed
\* width; the counter is the largest key plus one (one for an empty
\* registry) when the controller is built and the returned value plus two
\* after a create.
C14_SmallestFromCounter ==
    [][ /\ \A p \in Procs :
             /\ CalledBy("create", p)
                => LET n == LeastUnusedFrom(tasks[p], logs_dir, next_task_id[p])
                   IN  /\ ret'.val[1] = FormatId(n)
                       /\ Len(ret'.val[1]) = IdWidth
                       /\ next_task_id'[p] = n + 2
             /\ CalledBy("construct", p)
                => next_task_id'[p] =
                      IF Keys(disk) = {} THEN 1
                      ELSE 1 + CHOOSE m \in {ParseId(k) : k \in Keys(disk)} :
                                   \A k \in Keys(disk) : ParseId(k) <= m
        /\ Called("cli_run")
           => LET from == IF Keys(disk) = {} THEN 1
                          ELSE 1 + CHOOSE m \in {ParseId(k) : k \in Keys(disk)} :
                                       \A k \in Keys(disk) : ParseId(k) <= m
              IN  /\ Arg = FormatId(LeastUnusedFrom(LoadTasks(disk), logs_dir, from))
                  /\ Len(Arg) = IdWidth ]_vars

\* a controller that loaded 00001 and cleaned it up has issued 00002,
\* although 00001 was free again
C14_Witness ==
    /\ ret.op = "create"
    /\ ret.val = Some(FormatId(2))
    /\ next_task_id[ret.proc] = 4
    /\ Keys(tasks[ret.proc]) = {FormatId(2)}
    /\ ~HasLogs(logs_dir, FormatId(1))

\* C15: over create and cleanup calls spread over CLI invocations, each of
\* which reloads the registry and recomputes the counter, an id issued later
\* is never numerically smaller than an id issued earlier.
C15_MonotoneIds ==
    [][ Called("cli_run") => ParseId(Arg) >= issued ]_vars

\* the task persisted under id is no longer in the file after the step
Gone(id) == id \notin Keys(disk') \/ ~SameTask(disk[id], disk'[id])

\* the step is a cleanup that removes id
ByCleanup(id) ==
    \/ (Called("cleanup") \/ Called("cli_cleanup")) /\ Arg = id
    \/ Called("cleanup_old") /\ id \in Swept(tasks[ret'.proc], clock, Arg)
    \/ Called("cli_cleanup_old") /\ id \in Swept(LoadTasks(disk), clock, Arg)

\* C16: a persisted task leaves the file only through cleanup(id) or
\* cleanup_by_age: no other operation, load or save removes it.
C16_OnlyCleanupRemoves ==
    [][ \A id \in Keys(disk) : Gone(id) => ByCleanup(id) ]_vars

\* C18: nothing locks the registry and a save writes the whole in-memory
\* registry of the saving controller: after it, the file holds that
\* controller's copy of every task and nothing else, so whatever another
\* invocation has persisted since the controller loaded (a new task, a
\* status change, a cleanup) is absent from the file or undone in it.
C18_SaveOverwrites ==
    [][ \A p \in Procs :
          (ret'.proc = p /\ Has(trace', "save"))
          => \A id \in Keys(disk) \cup Keys(disk') \cup Keys(tasks'[p]) :
                IF id \in Keys(tasks'[p])
                THEN id \in Keys(disk') /\ disk'[id] = Serialize(tasks'[p][id])
                ELSE id \notin Keys(disk') ]_vars

\* a forced kill persisted by another invocation, and notified, has been
\* undone: the save of a controller that loaded the task earlier has put
\* the running status back into the file
C18_Witness ==
    /\ ret.proc \in Procs
    /\ Has(trace, "save")
    /\ \E id \in Keys(disk) :
          /\ Get(notified, id) = <<"stop">>
          /\ disk[id].status = "running"
          /\ SessionName(id) \notin DOMAIN sessions

\* C17: a process that loads the registry while another one is saving it
\* gets a complete snapshot, the one the file held before the save or the
\* one being saved, never an empty or partial one.
C17_CompleteSnapshot ==
    [][ \A p \in Procs :
          (CalledBy("construct", p) /\ writing # None)
          => \/ tasks'[p] = LoadTasks(writing[1].old)
             \/ tasks'[p] = writing[1].tasks ]_vars

\* C19: two create calls made by overlapping invocations never return the
\* same id: create never returns an id under which another invocation has
\* persisted a task.
C19_NoDuplicateId ==
    [][ /\ \A p \in Procs : CalledBy("create", p) => ret'.val[1] \notin Keys(disk)
        /\ Called("cli_run") => Arg \notin Keys(disk) ]_vars

\* the calls of C20
Mutators == {"create", "start", "reconcile", "stop", "stop_force", "cleanup", "cleanup_old"}

\* C20: whenever create, start, reconcile, stop, cleanup or cleanup_by_age
\* returns, the persisted registry equals the in-memory registry of the
\* controller: the same ids with the same field values.
C20_FileEqualsMemory ==
    [][ \A p \in Procs :
          (ret.op = "idle" /\ ret'.op \in Mutators /\ ret'.proc = p)
          => LoadTasks(disk') = tasks'[p] ]_vars

\* a call of this step takes task id into a terminal status: in the registry
\* of the controller that made the call, or in tasks.json
Entered(id) ==
    /\ ret.op = "idle" /\ ret'.op # "idle"
    /\ \/ \E p \in Procs :
             /\ ret'.proc = p /\ ret'.op # "construct"
             /\ id \in Keys(tasks'[p]) /\ tasks'[p][id].status \in Terminal
             /\ id \in Keys(tasks[p]) => tasks[p][id].status \notin Terminal
       \/ /\ ret'.proc \notin Procs
          /\ id \in Keys(disk') /\ disk'[id].status \in Terminal
          /\ id \in Keys(disk) => disk[id].status \notin Terminal

\* C21: every call that takes a task into completed, failed or killed invokes
\* the notifier for it after the status change, a start whose session does not
\* open included
C21_NotifiedAfterTerminal ==
    [][\A id \in AllIds :
          Entered(id) =>
             /\ Has(trace', "notify")
             /\ \E e \in {"set-completed", "set-failed", "set-killed"} :
                   Before(trace', e, "notify")]_vars

\* the call of this step invoked the notifier for task id
Notifies(id) ==
    /\ ret.op = "idle" /\ ret'.op \notin Creating \cup {"idle"}
    /\ Count(notified', id) > Count(notified, id)

Times(tr, e) == Cardinality({i \in 1..Len(tr) : tr[i] = e})

\* C23: when the notifier raises during reconcile or stop, the task is
\* terminal with its end_time in the registry and in tasks.json, the call
\* returns what it returns when the notifier works, the notifier was called
\* once, and a reconcile of a task that is already terminal does not call it.
C23_NotifierFailureSwallowed ==
    [][\A p \in Procs :
          /\ (CalledBy("reconcile", p) /\ Has(trace', "notify-error"))
             => /\ tasks[p][Arg].status = "running"
                /\ tasks'[p] = [tasks[p] EXCEPT ![Arg].status = "completed",
                                                ![Arg].end_time = Some(clock)]
                /\ disk' = DumpTasks(tasks'[p])
                /\ ret'.val = Some(tasks'[p][Arg])
                /\ Times(trace', "notify") = 1
                /\ Count(notified', Arg) = Count(notified, Arg) + 1
          /\ (CalledBy("stop_force", p) /\ Has(trace', "notify-error"))
             => /\ Stopped(p, Arg, "killed")
                /\ Times(trace', "notify") = 1
          /\ (CalledBy("stop", p) /\ Has(trace', "notify-error"))
             => /\ Stopped(p, Arg, "completed")
                /\ Times(trace', "notify") = 1
          /\ (CalledBy("reconcile", p) /\ Arg \in Keys(tasks[p])
                 /\ tasks[p][Arg].status \in Terminal)
             => /\ ~Has(trace', "notify")
                /\ tasks' = tasks /\ disk' = disk]_vars

\* a stop whose notifier raised has returned success
C23_Witness ==
    /\ ret.op = "stop"
    /\ ret.val = Some(TRUE)
    /\ Has(trace, "notify-error")
    /\ tasks[ret.proc][ret.id[1]].status = "completed"
    /\ tasks[ret.proc][ret.id[1]].end_time # None
    /\ disk[ret.id[1]] = Serialize(tasks[ret.proc][ret.id[1]])

\* C24: once the job of a started task has exited, whatever its exit status,
\* its session is eventually gone, and it is the teardown directive of the
\* pane that removes it: no CLI call is made in that step.
C24_SessionTornDown ==
    /\ \A name \in SessionNames :
          (name \in DOMAIN sessions /\ sessions[name].state = "exited")
             ~> (name \notin DOMAIN sessions)
    /\ [][\A name \in SessionNames :
             (name \in DOMAIN sessions /\ name \notin DOMAIN sessions')
                => sessions[name].state = "emailed" /\ ret' = ret /\ disk' = disk]_vars

\* the job of a task ran and exited, the pane notified and removed its session
C24_Witness ==
    \E id \in AllIds :
        /\ id \in Keys(disk)
        /\ disk[id].status = "completed"
        /\ disk[id].start_time # None
        /\ Get(notified, id) = <<"send_email">>
        /\ SessionName(id) \notin DOMAIN sessions
        /\ ret.op = "idle"

\* the record of task id the caller of this step worked on, before and after
\* the call: its registry for a controller of Procs, tasks.json for a
\* short-lived process
PriorStatus(id) ==
    IF ret'.proc \in Procs
    THEN IF id \in Keys(tasks[ret'.proc]) THEN tasks[ret'.proc][id].status ELSE "pending"
    ELSE IF id \in Keys(disk) THEN disk[id].status ELSE "pending"
After(id) ==
    IF ret'.proc \in Procs THEN Serialize(tasks'[ret'.proc][id]) ELSE disk'[id]

StartCalls == {"start", "cli_run"}
StopCalls  == {"stop", "stop_force", "cli_kill"}

\* C25 as stated: a task that becomes terminal without having been running
\* was taken there by a start whose session did not open
C25_OnlyFailedStartSkipsRunning ==
    [][\A id \in AllIds :
          (Entered(id) /\ PriorStatus(id) # "running")
             => ret'.op \in StartCalls /\ After(id).status = "failed"]_vars

\* C25, amended: a task becomes terminal from running, or from pending by a
\* start whose session did not open (failed), by a stop (killed when forced,
\* completed otherwise) or by the _send_email command of a pane, which marks
\* the record it finds under its id completed whatever its status; from
\* pending the task has never been running: start_time is unset.
C25_PathsSkippingRunning ==
    [][\A id \in AllIds :
          Entered(id) =>
             \/ PriorStatus(id) = "running" /\ After(id).start_time # None
             \/ /\ PriorStatus(id) = "pending"
                /\ After(id).start_time = None
                /\ \/ ret'.op \in StartCalls /\ After(id).status = "failed"
                   \/ ret'.op \in {"stop_force", "cli_kill"} /\ After(id).status = "killed"
                   \/ ret'.op = "stop" /\ After(id).status = "completed"
                   \/ ret'.op = "send_email" /\ After(id).status = "completed"]_vars

\* a pending task was stopped: it is terminal and was never running
C25_Witness ==
    /\ ret.op = "stop"
    /\ ret.val = Some(TRUE)
    /\ tasks[ret.proc][ret.id[1]].status = "completed"
    /\ tasks[ret.proc][ret.id[1]].start_time = None
    /\ disk[ret.id[1]].start_time = None

\* C26: whatever tasks.json holds, the construction of a controller goes
\* through: a missing file gives the empty registry, a file that cannot be
\* loaded gives the empty registry and a warning, and the process has a
\* controller it can use.
C26_LoadNeverAborts ==
    [][\A p \in Procs :
          CalledBy("construct", p) =>
             /\ pc'[p] = "ready"
             /\ ret'.val = None
             /\ disk = EmptyDict => tasks'[p] = EmptyDict /\ ~Has(trace', "load-warning")
             /\ ~Loadable(disk) => tasks'[p] = EmptyDict /\ Has(trace', "load-warning")
             /\ next_task_id'[p] >= 1]_vars

\* the fields of a Task that may be unset
Optional == {"start_time", "end_time", "pid", "exit_code", "error_message"}

C28_CreateFrame ==
    [][\A p \in Procs :
          CalledBy("create", p) =>
             /\ ret'.val = ret'.id
             /\ Arg \notin Keys(tasks[p])
             /\ Keys(tasks'[p]) = Keys(tasks[p]) \cup {Arg}
             /\ \A k \in Keys(tasks[p]) : tasks'[p][k] = tasks[p][k]
             /\ \E name \in Names, command \in Commands :
                   tasks'[p][Arg] = NewTask(Arg, name, command, clock)
             /\ tasks'[p][Arg].status = "pending"
             /\ tasks'[p][Arg].start_time = None
             /\ tasks'[p][Arg].end_time = None
             /\ disk' = DumpTasks(tasks'[p])
             /\ trace' = <<"save">>
             /\ sessions' = sessions
             /\ logs_dir' = logs_dir
             /\ notified' = Del(notified, Arg)
             /\ (tasks[p] = EmptyDict /\ next_task_id[p] = 1
                    /\ ~HasLogs(logs_dir, FormatId(1)))
                => Arg = FormatId(1)]_vars

\* a task was created beside a running one, whose session is open
C28_Witness ==
    /\ ret.op = "create"
    /\ tasks[ret.proc][ret.id[1]].status = "pending"
    /\ disk[ret.id[1]].status = "pending"
    /\ trace = <<"save">>
    /\ \E other \in Keys(tasks[ret.proc]) \ {ret.id[1]} :
          /\ tasks[ret.proc][other].status = "running"
          /\ SessionName(other) \in DOMAIN sessions

\* the session name of every record of reg is task_<key>, and no two records
\* have the same
HandlesOf(reg) ==
    /\ \A k \in Keys(reg) : reg[k].id = k /\ reg[k].tmux_session = SessionName(k)
    /\ \A k1, k2 \in Keys(reg) : k1 # k2 => reg[k1].tmux_session # reg[k2].tmux_session

\* C29: in every registry, of a controller or of tasks.json, the session name
\* of a task is task_<id>, at creation and at any time after it, and no two
\* tasks have the same session name.
C29_SessionHandle ==
    /\ HandlesOf(disk)
    /\ \A p \in Procs : HandlesOf(tasks[p])

\* two tasks of one registry are running, each in the session of its name
C29_Witness ==
    \E p \in Procs :
        /\ Cardinality(Keys(tasks[p])) = 2
        /\ \A k \in Keys(tasks[p]) :
              /\ tasks[p][k].status = "running"
              /\ tasks[p][k].tmux_session \in DOMAIN sessions
              /\ sessions[tasks[p][k].tmux_session].cmd = Some(FullCmd(tasks[p][k]))

\* the lines of a text, each with the "\n" that ends it; the last line may
\* have none
RECURSIVE LinesOf(_)
LinesOf(text) ==
    IF Len(text) = 0 THEN <<>>
    ELSE IF \A i \in 1..Len(text) : text[i] # "\n" THEN <<text>>
    ELSE LET i == CHOOSE j \in 1..Len(text) :
                      text[j] = "\n" /\ \A k \in 1..(j - 1) : text[k] # "\n"
         IN  <<SubSeq(text, 1, i)>> \o LinesOf(SubSeq(text, i + 1, Len(text)))

RECURSIVE Concat(_)
Concat(parts) == IF Len(parts) = 0 THEN <<>> ELSE parts[1] \o Concat(Tail(parts))

\* the last n lines of a text, the whole text for n <= 0
LastLines(text, n) == IF n > 0 THEN Concat(LastOf(LinesOf(text), n)) ELSE text

\* C30: get_tmux_output returns the pane capture when the session is there
\* and the content of <id>.log otherwise, cut to its last max_lines lines
\* when max_lines > 0 and whole otherwise; for an id that is not in the
\* registry it reports not found; it changes no task.
C30_CaptureOutput ==
    [][\A p \in Procs :
          CalledBy("output", p) =>
             LET id    == Arg.task_id
                 lines == Arg.lines
                 name  == SessionName(id)
             IN  /\ tasks' = tasks /\ disk' = disk
                 /\ sessions' = sessions /\ logs_dir' = logs_dir
                 /\ id \notin Keys(tasks[p]) => ret'.val = Some(NotFound(id))
                 /\ (id \in Keys(tasks[p]) /\ name \in DOMAIN sessions)
                       => ret'.val = Some(LastLines(sessions[name].pane, lines))
                 /\ (id \in Keys(tasks[p]) /\ name \notin DOMAIN sessions
                        /\ LogName(id) \in DOMAIN logs_dir)
                       => ret'.val = Some(LastLines(logs_dir[LogName(id)], lines))]_vars

\* the primary operation of a CLI invocation did not complete: the start of
\* `task run` or the stop of `task kill` returned False, or the id given to
\* `task cleanup` or `task status` is unknown
PrimaryFailed ==
    \/ ret'.op \in {"cli_run", "cli_kill", "cli_cleanup"} /\ ret'.val = Some(FALSE)
    \/ ret'.op = "cli_status" /\ ret'.val = None

CliCalls == {"cli_run", "cli_kill", "cli_cleanup", "cli_status", "cli_cleanup_old",
             "cli_usage"}

\* C31: a CLI invocation ends with code 1 when it has a usage error or its
\* primary operation did not complete, and with code 0 otherwise.
C31_ExitCode ==
    [][(ret.op = "idle" /\ ret'.op \in CliCalls) =>
          ret'.exit = IF ret'.op = "cli_usage" \/ PrimaryFailed THEN 1 ELSE 0]_vars

\* C32: a tmux command that returns non-zero during start or stop makes the
\* call return failure, and a start whose mirroring or job submission failed
\* does not mark the task running.
C32_ToolFailureReported ==
    [][((Called("start") \/ Called("stop_force") \/ Called("stop"))
          /\ Has(trace', "tool-failed")) =>
          /\ ret'.val = Some(FALSE)
          /\ Called("start") => tasks'[ret'.proc][Arg].status # "running"]_vars

\* C33: when saving the registry fails during create, start, stop or cleanup,
\* the call reports failure: create returns no id, the others return False.
C33_SaveFailureSurfaced ==
    [][((Called("create") \/ Called("start") \/ Called("stop_force") \/ Called("cleanup"))
          /\ Has(trace', "save-error")) =>
          ret'.val = IF Called("create") THEN None ELSE Some(FALSE)]_vars

\* the task the monitor loop of p works on
Monitored(p) == stop_arg[p][1].id

\* C34 as stated: every pass of the monitor loop reconciles and then captures
\* the output, and the loop ends at the first pass whose reconciled status is
\* neither pending nor running.
C34_CapturesEveryPass ==
    [][Called("monitor") =>
          /\ Has(trace', "capture-pane")
          /\ pc'[ret'.proc] = "ready" <=> tasks'[ret'.proc][Arg].status \notin Live]_vars

\* C34, amended: every pass reconciles first; a pass whose reconciled status is
\* pending or running captures the output and the loop goes on; the first pass
\* whose reconciled status is neither ends the loop without capturing. The loop
\* ends in no other way than that or an interrupt, so for a task that stays
\* pending it runs until interrupted; and once the session of a running task
\* has closed, the loop ends.
C34_MonitorLoop ==
    /\ [][Called("monitor") =>
            LET p  == ret'.proc
                st == tasks'[p][Arg].status
            IN  /\ tasks[p][Arg].status = "running" => Has(trace', "has-session")
                /\ st \in Live =>
                      /\ Has(trace', "capture-pane") /\ pc'[p] = "monitor"
                      /\ Has(trace', "has-session") =>
                            Before(trace', "has-session", "capture-pane")
                /\ st \notin Live =>
                      ~Has(trace', "capture-pane") /\ pc'[p] = "ready"]_vars
    /\ [][\A p \in Procs :
            pc[p] = "monitor" /\ pc'[p] # "monitor" =>
               \/ Called("monitor_interrupt")
               \/ Called("monitor") /\ tasks'[p][Arg].status \notin Live]_vars
    /\ \A p \in Procs :
          (/\ pc[p] = "monitor"
           /\ tasks[p][Monitored(p)].status = "running"
           /\ SessionName(Monitored(p)) \notin DOMAIN sessions) ~> pc[p] # "monitor"

\* the loop has ended on a running task whose session it found closed
C34_Witness ==
    /\ ret.op = "monitor"
    /\ pc[ret.proc] = "ready"
    /\ Before(trace, "has-session", "break")
    /\ tasks[ret.proc][ret.id[1]].status = "completed"

\* C35: create always terminates and returns an id, the case where listing
\* the logs directory fails included: a call of create_task that has entered
\* its allocation loop leaves it with an id.
C35_CreateTerminates ==
    \A p \in Procs : pc[p] = "alloc" ~> (pc[p] = "ready" /\ ret.op = "create" /\ ret.val # None)

\* the calls on one task that the frame rule of C36 speaks of
OnTask == {"start", "reconcile", "stop_force", "stop", "stop_sleep", "cleanup"}

\* the controller's own registry, the log files and the sessions: nothing but
\* what belongs to task id changes, and only cleanup takes the key away
FrameInMemory(p, id) ==
    /\ \A k \in Keys(tasks[p]) \ {id} : k \in Keys(tasks'[p]) /\ tasks'[p][k] = tasks[p][k]
    /\ Keys(tasks'[p]) \in {Keys(tasks[p]), Keys(tasks[p]) \ {id}}
    /\ Keys(tasks'[p]) # Keys(tasks[p]) => ret'.op = "cleanup"
    /\ \A f \in (DOMAIN logs_dir \cup DOMAIN logs_dir') \ {LogName(id)} :
          f \in DOMAIN logs_dir /\ f \in DOMAIN logs_dir' /\ logs_dir'[f] = logs_dir[f]
    /\ \A n \in (DOMAIN sessions \cup DOMAIN sessions') \ {SessionName(id)} :
          n \in DOMAIN sessions /\ n \in DOMAIN sessions' /\ sessions'[n] = sessions[n]

\* the persisted registry: no other record changes, comes or goes
FrameOnDisk(id) ==
    /\ \A k \in (Keys(disk) \cup Keys(disk')) \ {id} :
          k \in Keys(disk) /\ k \in Keys(disk') /\ disk'[k] = disk[k]
    /\ Keys(disk') # Keys(disk) => ret'.op = "cleanup" /\ Keys(disk') = Keys(disk) \ {id}

\* C36: start, stop, reconcile and cleanup on task id change at most that
\* task's record, log artifacts and session; every other record, log artifact
\* and session stays as it was, in the controller and in the persisted
\* registry, and of these calls only cleanup changes the set of keys, by
\* removing id.
C36_Frame ==
    [][\A p \in Procs :
          (ret.op = "idle" /\ ret'.op \in OnTask /\ ret'.proc = p) =>
             FrameInMemory(p, Arg) /\ FrameOnDisk(Arg)]_vars

\* status and timestamps of one record agree; a record is an in-memory task
\* or an entry of tasks.json
Consistent(t) ==
    /\ t.status = "pending" => t.start_time = None /\ t.end_time = None
    /\ t.status = "running" => t.start_time # None /\ t.end_time = None
    /\ t.status \in {"completed", "killed"} => t.end_time # None
    /\ t.status = "failed" => t.error_message # None /\ t.end_time = None

\* the calls that run start_task
Starting == {"start", "cli_run"}

\* the record under k turns failed in this step
TurnsFailed(reg, reg2, k) ==
    /\ k \in Keys(reg2) /\ reg2[k].status = "failed"
    /\ k \in Keys(reg) => reg[k].status # "failed"

\* C37: in every registry state, in a controller and in tasks.json, status and
\* timestamps agree: a pending task has neither start_time nor end_time, a
\* running task has start_time and no end_time, a completed or killed task has
\* end_time, a failed task has error_message and no end_time. A record turns
\* failed only in a call of start_task on it; an entry of tasks.json turns
\* failed in such a call, or is the copy of a record that did.
C37_StatusAndTimes ==
    /\ [](\A p \in Procs : \A k \in Keys(tasks[p]) : Consistent(tasks[p][k]))
    /\ [](\A k \in Keys(disk) : Consistent(disk[k]))
    /\ [][\A p \in Procs : \A k \in AllIds :
            (pc[p] = "ready" /\ TurnsFailed(tasks[p], tasks'[p], k)) =>
               ret'.op \in Starting /\ ret'.id = Some(k) /\ ret'.val = Some(FALSE)]_vars
    /\ [][\A k \in AllIds :
            TurnsFailed(disk, disk', k) =>
               \/ ret'.op \in Starting /\ ret'.id = Some(k) /\ ret'.val = Some(FALSE)
               \/ /\ ret'.proc \in Procs
                  /\ k \in Keys(tasks[ret'.proc])
                  /\ tasks[ret'.proc][k].status = "failed"]_vars

\* a start has failed beside a task that was killed: the failed record has its
\* message and no end time, the killed one its end time
C37_Witness ==
    /\ ret.op = "start" /\ ret.val = Some(FALSE)
    /\ ret.id[1] \in Keys(tasks[ret.proc]) /\ ret.id[1] \in Keys(disk)
    /\ tasks[ret.proc][ret.id[1]].status = "failed"
    /\ tasks[ret.proc][ret.id[1]].error_message # None
    /\ disk[ret.id[1]].status = "failed"
    /\ \E k \in Keys(tasks[ret.proc]) : tasks[ret.proc][k].status = "killed"

\* the session named by the handle of task id, as controller p holds it
Handle(p, id) == tasks[p][id].tmux_session

\* C38: after a start that returns failure with status failed, and after a
\* stop or a cleanup that returns success, no session named by the handle of
\* the task exists.
C38_NoSessionLeft ==
    [][\A p \in Procs :
          /\ (CalledBy("start", p) /\ ret'.val = Some(FALSE)
                /\ Arg \in Keys(tasks'[p]) /\ tasks'[p][Arg].status = "failed"
                /\ tasks[p][Arg].status = "pending")
             => Handle(p, Arg) \notin DOMAIN sessions'
          /\ ((CalledBy("stop_force", p) \/ CalledBy("stop", p) \/ CalledBy("cleanup", p))
                /\ ret'.val = Some(TRUE))
             => Handle(p, Arg) \notin DOMAIN sessions']_vars

\* the calls C39 speaks of, and the id each was given
ById == {"start", "stop_force", "stop", "reconcile", "output"}
GivenId == IF ret'.op = "output" THEN Arg.task_id ELSE Arg

\* C39: start, stop, reconcile and the capture of output, called with an id
\* the registry does not hold, return False (start, stop), nothing (reconcile)
\* or the not-found message (output), issue no tmux command and write nothing:
\* registry, tasks.json, logs directory and sessions stay as they were.
C39_UnknownId ==
    [][\A p \in Procs :
          (ret.op = "idle" /\ ret'.op \in ById /\ ret'.proc = p
             /\ GivenId \notin Keys(tasks[p])) =>
             /\ ret'.op \in {"start", "stop_force", "stop"} => ret'.val = Some(FALSE)
             /\ ret'.op = "reconcile" => ret'.val = None
             /\ ret'.op = "output" => ret'.val = Some(NotFound(GivenId))
             /\ trace' = <<>>
             /\ tasks' = tasks /\ next_task_id' = next_task_id
             /\ disk' = disk /\ logs_dir' = logs_dir /\ sessions' = sessions
             /\ notified' = notified]_vars

\* a start was refused for an id the controller does not hold, while
\* tasks.json holds a task of that id and its session is open
C39_Witness ==
    /\ ret.op = "start" /\ ret.val = Some(FALSE)
    /\ ret.proc \in Procs
    /\ ret.id[1] \notin Keys(tasks[ret.proc])
    /\ ret.id[1] \in Keys(disk)
    /\ SessionName(ret.id[1]) \in DOMAIN sessions

\* file f is an artifact of task id: the id, then a character that is no digit
ArtifactOf(id, f) ==
    /\ IsPrefix(id, f) /\ Len(f) > Len(id)
    /\ \A d \in 0..9 : f[Len(id) + 1] # DigitChar(d)

\* C40: cleanup(id) deletes log artifacts of task id only, for ids of any
\* length: the artifacts of every other task that is still in the registry
\* stay in the directory; and the allocator skips no candidate for a file
\* that is an artifact of another id.
C40_OwnArtifactsOnly ==
    [][\A p \in Procs :
          /\ CalledBy("cleanup", p) =>
                \A k \in Keys(tasks[p]) \ {Arg} : \A f \in DOMAIN logs_dir :
                   ArtifactOf(k, f) => f \in DOMAIN logs_dir' /\ logs_dir'[f] = logs_dir[f]
          /\ CalledBy("create", p) =>
                \A n \in next_task_id[p]..(ParseId(Arg) - 1) :
                   \/ FormatId(n) \in Keys(tasks[p])
                   \/ \E f \in DOMAIN logs_dir : ArtifactOf(FormatId(n), f)]_vars

====
